---- MODULE Spec2Model ----
(***************************************************************************)
(* Model of the worker pool (src/threadpool.rs) and of the per-connection  *)
(* job the HTTP server submits to it (src/http/server.rs).                 *)
(*                                                                         *)
(* The owner thread builds a pool (ThreadPool::new), submits jobs          *)
(* (ThreadPool::execute) and finally drops it (Drop for ThreadPool).       *)
(* Every worker thread runs the loop of Worker::new.  A job is the closure *)
(* HttpServer::serve submits: handle_stream on one accepted socket.        *)
(***************************************************************************)
EXTENDS Integers, Sequences, FiniteSets, TLC

\* Largest pool size the owner asks for.
MaxWorkers == 2
\* Largest number of jobs the owner submits.
MaxJobs == 2

Workers == 1..MaxWorkers
Jobs == 1..MaxJobs

\* What a job does once a worker runs it:
\*   "ok"    the request parses, the handler returns a response
\*   "bad"   the request does not parse (parse_request yields no request)
\*   "reset" the peer closes before the request is complete (parse_request
\*           fails with ConnectionReset)
\*   "panic" the request parses and the handler panics
\*   "hang"  the peer never sends a complete request: the read never returns
JobKinds == {"ok", "bad", "reset", "panic", "hang"}

VARIABLES
    poolpc,     \* position of the owner thread
    size,       \* argument of ThreadPool::new
    workers,    \* length of ThreadPool.workers: threads spawned so far
    sender,     \* send end of the channel: "none", "open" or "closed"
    queue,      \* jobs buffered in the channel, oldest first
    holder,     \* worker holding the receive mutex, 0 when free
    poisoned,   \* the receive mutex is poisoned
    pc,         \* position of each worker thread
    cur,        \* job a worker has received, 0 when none
    njobs,      \* number of jobs sent so far; jobs are numbered 1..njobs
    kind,       \* what each job does, "none" until submitted
    trace,      \* per job: the steps of handle_stream done on its socket
    resp,       \* per job: the Response handed to respond, NoResponse before
    dequeued,   \* history: <<job, worker>> in the order of the receives
    completed,  \* history: jobs in the order their closure returned
    joinIdx,    \* index in ThreadPool.workers of the next handle to join
    \* parse_request(buf_reader), one call
    wire,       \* the bytes the peer sends before it closes its end
    wpos,       \* number of bytes of wire the reader has handed out
    bytes_read, \* result of the last buf_reader.read, -1 before the first
    buf_str,    \* the accumulator: every chunk appended so far
    phase,      \* position in parse_request, or how it ended
    parsed_len, \* length of the header region, 0 until it is complete
    body_len,   \* value of Content-Length, 0 until the header is complete
    request,    \* the Request being built, returned when phase = "done"
    \* respond(stream, resp), one call
    response,   \* the Response handed to respond
    written,    \* the bytes respond has put on the stream
    rphase,     \* position in respond, or how it ended
    \* the handler closure of bin/server.rs: router and store
    handlers,   \* HttpRouter.handlers: endpoint -> method -> handler
    db,         \* the MockDB behind the store mutex
    db_before,  \* the store as the last routed request found it
    rq,         \* the last request handed to the closure
    result,     \* what router.route returned for it
    invoked,    \* the handler route called for it, "none" if it called none
    passed,     \* the params map route handed to that handler
    answer,     \* status of the Response the closure returned for it
    added,      \* the last add_route call and the handler it replaced
    \* the handler closure of bin/server.rs run by several workers
    store,      \* the MockDB inside Arc<Mutex<..>>
    guard,      \* worker holding the store lock, 0 when free
    store_poisoned, \* the store mutex is poisoned
    wpc,        \* position of each worker in the closure
    wrq,        \* the request each worker was handed
    wsnap,      \* the store as the handler of each worker read it
    wres,       \* the Result each worker got from lock and route
    reply,      \* the Response each worker returned, NoReply before
    issued,     \* history: item ids returned by POST, in order
    removed,    \* history: item ids returned by DELETE, in order
    \* one Database value used directly
    mock,       \* the MockDB
    op,         \* the last operation called on it
    ret,        \* what that operation returned
    handed,     \* history: the items returned by inserts, in order
    dropped,    \* history: the items returned by delete_item, in order
    sqlite      \* an SQLiteConnection given the same calls, and its last return

poolVars == <<poolpc, size, workers, sender, queue, holder, poisoned, pc, cur,
              njobs, kind, trace, resp, dequeued, completed, joinIdx>>

parseVars == <<wire, wpos, bytes_read, buf_str, phase, parsed_len, body_len,
               request>>

respondVars == <<response, written, rphase>>

routeVars == <<handlers, db, db_before, rq, result, invoked, passed, answer,
               added>>

storeVars == <<store, guard, store_poisoned, wpc, wrq, wsnap, wres, reply,
               issued, removed>>

dbVars == <<mock, op, ret, handed, dropped, sqlite>>

nonPoolVars == <<parseVars, respondVars, routeVars, storeVars, dbVars>>
nonParseVars == <<poolVars, respondVars, routeVars, storeVars, dbVars>>
nonRespondVars == <<poolVars, parseVars, routeVars, storeVars, dbVars>>
nonRouteVars == <<poolVars, parseVars, respondVars, storeVars, dbVars>>
nonStoreVars == <<poolVars, parseVars, respondVars, routeVars, dbVars>>
nonDbVars == <<poolVars, parseVars, respondVars, routeVars, storeVars>>

vars == <<poolVars, nonPoolVars>>

----------------------------------------------------------------------------
\* Helpers

Range(s) == {s[i] : i \in 1..Len(s)}

\* Positions of a worker at which it is inside a job.
RunPcs == {"parse", "handler", "respond", "close"}

\* A worker thread that has not terminated.
Live(w) == w <= workers /\ pc[w] \notin {"exited", "panicked"}

LiveWorkers == {w \in Workers : Live(w)}

\* The Receiver lives in an Arc: one reference is the local of
\* ThreadPool::new, one is moved into each worker's closure.
ReceiverAlive == poolpc = "spawning" \/ LiveWorkers # {}

\* The Receiver is still referenced once worker w has terminated.
ReceiverAliveWithout(w) == poolpc = "spawning" \/ LiveWorkers \ {w} # {}

\* Dropping a queued job drops the socket it owns.
DropQueued(q, t) ==
    [j \in Jobs |-> IF j \in Range(q) THEN Append(t[j], "close") ELSE t[j]]

\* No Response value has been built for the connection yet.
NoResponse == [status |-> 0, headers |-> <<>>, body |-> <<>>]

\* A Request with nothing in it yet.
NoRequest == [method |-> "", path |-> "", headers |-> <<>>, body |-> <<>>]

\* No call of parse_request is in progress.
ParseIdle ==
    /\ wire = <<>>
    /\ wpos = 0
    /\ bytes_read = -1
    /\ buf_str = <<>>
    /\ phase = "idle"
    /\ parsed_len = 0
    /\ body_len = 0
    /\ request = NoRequest

\* No call of respond is in progress.
RespondIdle ==
    /\ response = NoResponse
    /\ written = <<>>
    /\ rphase = "idle"

\* No router and no store have been built.
RouteIdle ==
    /\ handlers = <<>>
    /\ db = <<>>
    /\ db_before = <<>>
    /\ rq = <<>>
    /\ result = <<>>
    /\ invoked = "none"
    /\ passed = <<>>
    /\ answer = 0
    /\ added = <<>>

\* No worker runs the handler closure.
StoreIdle ==
    /\ store = <<>>
    /\ guard = 0
    /\ store_poisoned = FALSE
    /\ wpc = <<>>
    /\ wrq = <<>>
    /\ wsnap = <<>>
    /\ wres = <<>>
    /\ reply = <<>>
    /\ issued = <<>>
    /\ removed = <<>>

\* No Database value is in use.
DbIdle ==
    /\ mock = <<>>
    /\ op = <<>>
    /\ ret = <<>>
    /\ handed = <<>>
    /\ dropped = <<>>
    /\ sqlite = <<>>

----------------------------------------------------------------------------
\* No pool has been built.
PoolInit ==
    /\ poolpc = "init"
    /\ size = 0
    /\ workers = 0
    /\ sender = "none"
    /\ queue = <<>>
    /\ holder = 0
    /\ poisoned = FALSE
    /\ pc = [w \in Workers |-> "unspawned"]
    /\ cur = [w \in Workers |-> 0]
    /\ njobs = 0
    /\ kind = [j \in Jobs |-> "none"]
    /\ trace = [j \in Jobs |-> <<>>]
    /\ resp = [j \in Jobs |-> NoResponse]
    /\ dequeued = <<>>
    /\ completed = <<>>
    /\ joinIdx = 0

Init ==
    /\ PoolInit
    /\ StoreIdle
    /\ DbIdle
    /\ ParseIdle
    /\ RespondIdle
    /\ RouteIdle

----------------------------------------------------------------------------
\* ThreadPool::new

\* assert!(size > 0, ...)
SizeOkNoAssert(n) == n >= 0
SizeOk(n) == n > 0

\* The assertion, then mpsc::channel() and the Arc<Mutex<Receiver>>.
New(n) ==
    /\ poolpc = "init"
    /\ size' = n
    /\ IF SizeOk(n)
         THEN /\ poolpc' = "spawning"
              /\ sender' = "open"
         ELSE /\ poolpc' = "new_panicked"
              /\ UNCHANGED sender
    /\ UNCHANGED resp
    /\ UNCHANGED nonPoolVars
    /\ UNCHANGED <<workers, queue, holder, poisoned, pc, cur, njobs, kind,
                   trace, dequeued, completed, joinIdx>>

\* One iteration of `for _ in 0..size`: Worker::new spawns a thread, which
\* starts at the top of its loop.
Spawn ==
    /\ poolpc = "spawning"
    /\ workers < size
    /\ workers' = workers + 1
    /\ pc' = [pc EXCEPT ![workers + 1] = "lock"]
    /\ UNCHANGED resp
    /\ UNCHANGED nonPoolVars
    /\ UNCHANGED <<poolpc, size, sender, queue, holder, poisoned, cur, njobs,
                   kind, trace, dequeued, completed, joinIdx>>

\* The loop is over: the pool value is returned.
NewReturn ==
    /\ poolpc = "spawning"
    /\ workers = size
    /\ poolpc' = "live"
    /\ UNCHANGED resp
    /\ UNCHANGED nonPoolVars
    /\ UNCHANGED <<size, workers, sender, queue, holder, poisoned, pc, cur,
                   njobs, kind, trace, dequeued, completed, joinIdx>>

----------------------------------------------------------------------------
\* ThreadPool::execute

\* self.sender.as_ref().unwrap().send(job).unwrap(): send fails only when
\* the Receiver has been dropped, and the unwrap then panics.
Execute(k) ==
    /\ poolpc = "live"
    /\ njobs < MaxJobs
    /\ IF ReceiverAlive
         THEN /\ njobs' = njobs + 1
              /\ queue' = Append(queue, njobs + 1)
              /\ kind' = [kind EXCEPT ![njobs + 1] = k]
              /\ UNCHANGED poolpc
         ELSE /\ poolpc' = "execute_panicked"
              /\ UNCHANGED <<njobs, queue, kind>>
    /\ UNCHANGED resp
    /\ UNCHANGED nonPoolVars
    /\ UNCHANGED <<size, workers, sender, holder, poisoned, pc, cur, trace,
                   dequeued, completed, joinIdx>>

----------------------------------------------------------------------------
\* Drop for ThreadPool

\* drop(self.sender.take())
SenderKeptOpen == "open"
SenderAfterDrop == "closed"

DropClose ==
    /\ poolpc = "live"
    /\ sender' = SenderAfterDrop
    /\ poolpc' = "joining"
    /\ joinIdx' = 1
    /\ UNCHANGED resp
    /\ UNCHANGED nonPoolVars
    /\ UNCHANGED <<size, workers, queue, holder, poisoned, pc, cur, njobs,
                   kind, trace, dequeued, completed>>

\* thread.join() returns once the thread has terminated.
JoinWithoutWaiting(w) == TRUE
Joinable(w) == pc[w] \in {"exited", "panicked"}

\* One iteration of `for worker in &mut self.workers`: join().unwrap()
\* panics when the worker thread panicked.
Join ==
    /\ poolpc = "joining"
    /\ joinIdx <= workers
    /\ Joinable(joinIdx)
    /\ IF pc[joinIdx] = "panicked"
         THEN /\ poolpc' = "drop_panicked"
              /\ UNCHANGED joinIdx
         ELSE /\ joinIdx' = joinIdx + 1
              /\ poolpc' = IF joinIdx = workers THEN "dropped" ELSE "joining"
    /\ UNCHANGED resp
    /\ UNCHANGED nonPoolVars
    /\ UNCHANGED <<size, workers, sender, queue, holder, poisoned, pc, cur,
                   njobs, kind, trace, dequeued, completed>>

----------------------------------------------------------------------------
\* Worker::new: the loop of a worker thread

\* receiver.lock() takes the mutex when no other thread holds it.
MutexNotExclusive == TRUE
MutexFree == holder = 0

\* receiver.lock().unwrap(): the unwrap panics on a poisoned mutex.
Lock(w) ==
    /\ w <= workers
    /\ pc[w] = "lock"
    /\ MutexFree
    /\ IF poisoned
         THEN /\ pc' = [pc EXCEPT ![w] = "panicked"]
              /\ queue' = IF ReceiverAliveWithout(w) THEN queue ELSE <<>>
              /\ trace' = IF ReceiverAliveWithout(w) THEN trace
                          ELSE DropQueued(queue, trace)
              /\ UNCHANGED holder
         ELSE /\ pc' = [pc EXCEPT ![w] = "recv"]
              /\ holder' = w
              /\ UNCHANGED <<queue, trace>>
    /\ UNCHANGED resp
    /\ UNCHANGED nonPoolVars
    /\ UNCHANGED <<poolpc, size, workers, sender, poisoned, cur, njobs, kind,
                   dequeued, completed, joinIdx>>

\* The MutexGuard is a temporary of the `let message = ...;` statement: it
\* is dropped at the end of that statement, before the match.
GuardKept(w) == w
GuardAfterRecv(w) == 0

\* recv() removes the oldest job of the channel.
QueueNotPopped(q) == q
QueueAfterRecv(q) == Tail(q)

\* recv() returns Ok(job)
Recv(w) ==
    /\ w <= workers
    /\ pc[w] = "recv"
    /\ holder = w
    /\ queue # <<>>
    /\ cur' = [cur EXCEPT ![w] = Head(queue)]
    /\ dequeued' = Append(dequeued, <<Head(queue), w>>)
    /\ queue' = QueueAfterRecv(queue)
    /\ holder' = GuardAfterRecv(w)
    /\ pc' = [pc EXCEPT ![w] = "parse"]
    /\ UNCHANGED resp
    /\ UNCHANGED nonPoolVars
    /\ UNCHANGED <<poolpc, size, workers, sender, poisoned, njobs, kind,
                   trace, completed, joinIdx>>

\* recv() returns Err: every Sender is dropped and the channel is empty.
\* Err(_) => break
RecvErr(w) ==
    /\ w <= workers
    /\ pc[w] = "recv"
    /\ holder = w
    /\ queue = <<>>
    /\ sender = "closed"
    /\ holder' = 0
    /\ pc' = [pc EXCEPT ![w] = "exited"]
    /\ UNCHANGED resp
    /\ UNCHANGED nonPoolVars
    /\ UNCHANGED <<poolpc, size, workers, sender, queue, poisoned, cur, njobs,
                   kind, trace, dequeued, completed, joinIdx>>

----------------------------------------------------------------------------
\* The job: handle_stream on the socket the closure owns

\* The Response handle_stream builds itself when parse_request yields no
\* request: status 400, empty body, no headers.
CannedResponseOtherStatus == [status |-> 500, headers |-> <<>>, body |-> <<>>]
CannedResponse == [status |-> 400, headers |-> <<>>, body |-> <<>>]

\* The Response the handler passed to serve returns for a parsed request.
HandlerResponse ==
    [status |-> 200, headers |-> <<>>, body |-> <<<<"asc", "a", "">>>>]

\* The requests for which parse_request yields no request: handle_stream
\* has one arm for every failure, malformed bytes and early close alike.
ParseFailsOnlyMalformed(k) == k = "bad"
ParseFails(k) == k \in {"bad", "reset"}

\* parse_request(buf_reader): blocks until the request is complete or the
\* parse has failed; any failure reaches handle_stream as "no request".
ParseWithReadTimeout(w) ==
    /\ w <= workers
    /\ pc[w] = "parse"
    /\ IF ParseFails(kind[cur[w]]) \/ kind[cur[w]] = "hang"
         THEN /\ trace' = [trace EXCEPT ![cur[w]] = Append(@, "parse_failed")]
              /\ resp' = [resp EXCEPT ![cur[w]] = CannedResponse]
              /\ pc' = [pc EXCEPT ![w] = "respond"]
         ELSE /\ trace' = [trace EXCEPT ![cur[w]] = Append(@, "read")]
              /\ pc' = [pc EXCEPT ![w] = "handler"]
              /\ UNCHANGED resp
    /\ UNCHANGED nonPoolVars
    /\ UNCHANGED <<poolpc, size, workers, sender, queue, holder, poisoned,
                   cur, njobs, kind, dequeued, completed, joinIdx>>
Parse(w) ==
    /\ w <= workers
    /\ pc[w] = "parse"
    /\ kind[cur[w]] # "hang"
    /\ IF ParseFails(kind[cur[w]])
         THEN /\ trace' = [trace EXCEPT ![cur[w]] = Append(@, "parse_failed")]
              /\ resp' = [resp EXCEPT ![cur[w]] = CannedResponse]
              /\ pc' = [pc EXCEPT ![w] = "respond"]
         ELSE /\ trace' = [trace EXCEPT ![cur[w]] = Append(@, "read")]
              /\ pc' = [pc EXCEPT ![w] = "handler"]
              /\ UNCHANGED resp
    /\ UNCHANGED nonPoolVars
    /\ UNCHANGED <<poolpc, size, workers, sender, queue, holder, poisoned,
                   cur, njobs, kind, dequeued, completed, joinIdx>>

\* A panic unwinds the worker thread; nothing catches it.
PcAfterPanicRecovered == "lock"
PcAfterPanic == "panicked"

\* handler(req)
Handler(w) ==
    /\ w <= workers
    /\ pc[w] = "handler"
    /\ IF kind[cur[w]] = "panic"
         THEN LET t == [trace EXCEPT ![cur[w]] = @ \o <<"handler", "close">>]
                  gone == PcAfterPanic = "panicked" /\ ~ReceiverAliveWithout(w)
              IN  /\ pc' = [pc EXCEPT ![w] = PcAfterPanic]
                  /\ poisoned' = (poisoned \/ holder = w)
                  /\ holder' = IF holder = w THEN 0 ELSE holder
                  /\ queue' = IF gone THEN <<>> ELSE queue
                  /\ trace' = IF gone THEN DropQueued(queue, t) ELSE t
                  /\ UNCHANGED resp
         ELSE /\ trace' = [trace EXCEPT ![cur[w]] = Append(@, "handler")]
              /\ resp' = [resp EXCEPT ![cur[w]] = HandlerResponse]
              /\ pc' = [pc EXCEPT ![w] = "respond"]
              /\ UNCHANGED <<poisoned, holder, queue>>
    /\ UNCHANGED nonPoolVars
    /\ UNCHANGED <<poolpc, size, workers, sender, cur, njobs, kind, dequeued,
                   completed, joinIdx>>

\* respond(&mut stream, ...): stream.write_all of the serialized response
Respond(w) ==
    /\ w <= workers
    /\ pc[w] = "respond"
    /\ trace' = [trace EXCEPT ![cur[w]] = Append(@, "write")]
    /\ pc' = [pc EXCEPT ![w] = "close"]
    /\ UNCHANGED resp
    /\ UNCHANGED nonPoolVars
    /\ UNCHANGED <<poolpc, size, workers, sender, queue, holder, poisoned,
                   cur, njobs, kind, dequeued, completed, joinIdx>>

\* The closure owns the stream (`move`): the stream is dropped, and the
\* socket closed, when the closure returns.
StreamLeaked(t) == t
DropStream(t) == Append(t, "close")

\* job() returns and the worker loops.
Close(w) ==
    /\ w <= workers
    /\ pc[w] = "close"
    /\ trace' = [trace EXCEPT ![cur[w]] = DropStream(@)]
    /\ completed' = Append(completed, cur[w])
    /\ cur' = [cur EXCEPT ![w] = 0]
    /\ pc' = [pc EXCEPT ![w] = "lock"]
    /\ UNCHANGED resp
    /\ UNCHANGED nonPoolVars
    /\ UNCHANGED <<poolpc, size, workers, sender, queue, holder, poisoned,
                   njobs, kind, dequeued, joinIdx>>

----------------------------------------------------------------------------
WorkerStep(w) ==
    \/ Lock(w)
    \/ Recv(w)
    \/ RecvErr(w)
    \/ Parse(w)
    \/ Handler(w)
    \/ Respond(w)
    \/ Close(w)

Next ==
    \/ \E n \in 0..MaxWorkers : New(n)
    \/ Spawn
    \/ NewReturn
    \/ \E k \in JobKinds : Execute(k)
    \/ DropClose
    \/ Join
    \/ \E w \in Workers : Lock(w)
    \/ \E w \in Workers : Recv(w)
    \/ \E w \in Workers : RecvErr(w)
    \/ \E w \in Workers : Parse(w)
    \/ \E w \in Workers : Handler(w)
    \/ \E w \in Workers : Respond(w)
    \/ \E w \in Workers : Close(w)

Spec == Init /\ [][Next]_vars

\* The scheduler runs every thread that can take a step: a worker that is
\* not blocked, and the owner inside new and inside drop.  Whether the
\* owner submits a job or drops the pool is up to the owner.  A worker
\* that can take a step stays able to until a worker steps, and the owner
\* inside new or drop until the owner steps, so fairness to every thread
\* gives fairness to the workers as a whole and to the owner's three steps
\* as a whole, which is all that is assumed here.
LiveSpec ==
    /\ Spec
    /\ WF_poolVars(\E w \in Workers : WorkerStep(w))
    /\ WF_poolVars(Spawn \/ NewReturn \/ Join)

----------------------------------------------------------------------------
\* Properties of the worker pool

Count(s, x) == Cardinality({i \in 1..Len(s) : s[i] = x})

\* Number of receives that returned job j.
Dequeues(j) == Cardinality({i \in 1..Len(dequeued) : dequeued[i][1] = j})

\* Workers that are inside job j.
Runners(j) == {w \in Workers : cur[w] = j /\ pc[w] \in RunPcs}

NoPanicSubmitted == \A j \in 1..njobs : kind[j] # "panic"

\* C1: when no submitted job panics, every submitted job is either still
\* queued or has been received exactly once, by one worker; a received job
\* is being run by exactly that one worker or has returned exactly once.
\* No job is received twice and none disappears.
C1_ExactlyOnce ==
    NoPanicSubmitted =>
        \A j \in 1..njobs :
            /\ Count(queue, j) + Dequeues(j) = 1
            /\ Count(completed, j) + Cardinality(Runners(j)) = Dequeues(j)

\* C1 witness: two workers have each run a job and every one of at least two
\* submitted jobs has returned.
C1_Witness ==
    /\ NoPanicSubmitted
    /\ njobs >= 2
    /\ \A j \in 1..njobs : Count(completed, j) = 1
    /\ \E i, k \in 1..Len(dequeued) : dequeued[i][2] # dequeued[k][2]

\* C2: once drop has returned, every submitted job has been run to its end
\* (its closure returned and its socket is closed), nothing is left in the
\* queue and every worker thread has left its loop.
C2_DropWaitsForJobs ==
    poolpc = "dropped" =>
        /\ queue = <<>>
        /\ \A j \in 1..njobs :
              /\ Count(completed, j) = 1
              /\ trace[j][Len(trace[j])] = "close"
        /\ \A w \in 1..workers : pc[w] = "exited" /\ cur[w] = 0

\* C2 witness: drop has returned after at least two jobs were submitted.
C2_Witness ==
    /\ poolpc = "dropped"
    /\ njobs >= 2
    /\ Len(completed) = njobs

\* C3: the owner joins only after it has closed the send end; a worker that
\* has left its loop did so with the send end closed and the queue empty, so
\* while the send end is open no worker has left its loop.
C3_CloseBeforeJoin ==
    /\ poolpc \in {"joining", "dropped", "drop_panicked"} => sender = "closed"
    /\ joinIdx > 0 => sender = "closed"
    /\ \A w \in Workers : pc[w] = "exited" => sender = "closed" /\ queue = <<>>

\* C3 witness: during the joins one worker has left its loop while another
\* is still inside a job.
C3_Witness ==
    /\ poolpc = "joining"
    /\ \E w, v \in 1..workers : pc[w] = "exited" /\ pc[v] \in RunPcs

\* Every submitted job returns: it neither panics nor blocks forever.
AllJobsReturn == \A j \in 1..njobs : kind[j] \in {"ok", "bad"}

\* C4: under fair scheduling, when drop has closed the send end and every
\* submitted job returns, drop eventually returns.
C4_DropEventuallyReturns ==
    (poolpc = "joining" /\ AllJobsReturn) ~> (poolpc = "dropped")

\* C4 witness: drop has returned from a pool in which two workers each
\* received a job and every job returned.
C4_Witness ==
    /\ poolpc = "dropped"
    /\ AllJobsReturn
    /\ njobs >= 2
    /\ \E i, k \in 1..Len(dequeued) : dequeued[i][2] # dequeued[k][2]

\* C5: ThreadPool::new(0) fails at the assertion with no channel and no
\* worker created, and a pool exists only for a size of at least 1.
C5_ZeroSizeRejected ==
    /\ poolpc = "new_panicked" =>
          /\ size = 0
          /\ sender = "none"
          /\ workers = 0
          /\ \A w \in Workers : pc[w] = "unspawned"
    /\ poolpc \notin {"init", "new_panicked"} => size >= 1

\* C5 witness: new(0) has been called and has panicked.
C5_Witness == poolpc = "new_panicked" /\ size = 0

\* C6: execute never rejects a job: whatever the state of the workers, the
\* send succeeds and execute returns normally.
C6_ExecuteNeverRejects == poolpc # "execute_panicked"

\* C7: at most one worker is inside the receive, the mutex is held only by
\* a worker that is inside the receive, and a worker that is inside a job
\* does not hold it.
C7_ReceiveSerialized ==
    /\ Cardinality({w \in Workers : pc[w] = "recv"}) <= 1
    /\ holder # 0 => pc[holder] = "recv"
    /\ \A w \in Workers : pc[w] \in RunPcs => holder # w

\* C7 witness: every worker of a pool of at least two is inside a job at the
\* same moment.
C7_Witness ==
    /\ workers >= 2
    /\ \A w \in 1..workers : pc[w] \in RunPcs

\* C8: a job that is being executed never keeps another worker from
\* receiving: when no worker is inside the receive, a worker at the top of
\* its loop can take the mutex, whatever the other workers execute.  Hence
\* jobs received one after the other run concurrently and may return in any
\* order.  Every returned job was received before.
C8_RunningJobsDoNotBlockReceive ==
    /\ \A w \in 1..workers :
          (pc[w] = "lock" /\ \A v \in Workers : pc[v] # "recv")
              => ENABLED Lock(w)
    /\ \A i \in 1..Len(completed) : Dequeues(completed[i]) >= 1

\* C8 witness: as many jobs as workers (at least two) were received in the
\* order of submission and returned in the reverse order.
C8_Witness ==
    /\ workers >= 2
    /\ njobs = workers
    /\ Len(dequeued) = workers
    /\ Len(completed) = workers
    /\ \A i \in 1..workers : dequeued[i][1] = i
    /\ \A i \in 1..workers : completed[i] = workers + 1 - i

\* C9: a handler panic terminates the worker that ran the job, a terminated
\* worker stays terminated and receives nothing more, and once the pool is
\* built the number of live workers never grows.
C9_PanicKillsWorker ==
    [][ /\ \A w \in Workers :
              /\ (pc[w] = "handler" /\ kind[cur[w]] = "panic" /\ pc'[w] # pc[w])
                    => pc'[w] = "panicked"
              /\ pc[w] = "panicked" => (pc'[w] = "panicked" /\ cur'[w] = cur[w])
        /\ poolpc \notin {"init", "spawning"} =>
              {w \in Workers : Live(w)'} \subseteq {w \in Workers : Live(w)}
      ]_vars

\* C9 witness: one worker was terminated by a panic and the other worker
\* has run a later job to its end.
C9_Witness ==
    /\ \E w \in 1..workers : pc[w] = "panicked"
    /\ \E j \in 1..njobs :
          /\ Count(completed, j) = 1
          /\ \E p \in 1..njobs : p < j /\ kind[p] = "panic"

Pos(t, e) == CHOOSE i \in 1..Len(t) : t[i] = e

\* C10: on every connection the handler runs only after the request was
\* read, the response is written before the socket is closed, a job that
\* returned has written its response and then closed the socket, and the
\* worker that received a job is inside that job until its socket is closed.
C10_ConnectionStepsOrdered ==
    \A j \in Jobs :
        LET t == trace[j] IN
        /\ "handler" \in Range(t) =>
              "read" \in Range(t) /\ Pos(t, "read") < Pos(t, "handler")
        /\ ("write" \in Range(t) /\ "close" \in Range(t)) =>
              Pos(t, "write") < Pos(t, "close")
        /\ "close" \in Range(t) => t[Len(t)] = "close"
        /\ Count(completed, j) >= 1 =>
              "write" \in Range(t) /\ "close" \in Range(t)
        /\ \A i \in 1..Len(dequeued) :
              (dequeued[i][1] = j /\ dequeued[i][2] \notin Runners(j))
                  => "close" \in Range(t)

\* C10 witness: a worker has read a request, run the handler, written the
\* response and closed the socket, and has then received another job.
C10_Witness ==
    \E i, k \in 1..Len(dequeued) :
        /\ i < k
        /\ dequeued[i][2] = dequeued[k][2]
        /\ trace[dequeued[i][1]] = <<"read", "handler", "write", "close">>

----------------------------------------------------------------------------
\* Properties of the connection job

C12_ParseFailureGives400 ==
    \A j \in Jobs :
        "parse_failed" \in Range(trace[j]) =>
            /\ "handler" \notin Range(trace[j])
            /\ resp[j] = [status |-> 400, headers |-> <<>>, body |-> <<>>]
            /\ Count(completed, j) = 1 => "write" \in Range(trace[j])

\* C12 witness: a malformed request was answered and its socket closed.
C12_Witness ==
    \E j \in 1..njobs :
        /\ kind[j] = "bad"
        /\ trace[j] = <<"parse_failed", "write", "close">>
        /\ resp[j].status = 400

\* C13: on a connection the peer closed before the request was complete
\* (parse_request fails with ConnectionReset) no response is written.
C13_NoResponseOnReset ==
    \A j \in Jobs : kind[j] = "reset" => "write" \notin Range(trace[j])

\* C13 (amended): a connection the peer closed before the request was
\* complete is handled like every other parse failure: the handler is not
\* invoked and the canned 400 response is written before the socket is
\* closed.
C13_ResetAnsweredWith400 ==
    \A j \in Jobs :
        (kind[j] = "reset" /\ Dequeues(j) = 1) =>
            /\ "handler" \notin Range(trace[j])
            /\ "read" \notin Range(trace[j])
            /\ Count(completed, j) = 1 =>
                  /\ trace[j] = <<"parse_failed", "write", "close">>
                  /\ resp[j].status = 400

\* C13 witness: the job of a connection closed early has written a response
\* and returned.
C13_Witness ==
    \E j \in 1..njobs :
        /\ kind[j] = "reset"
        /\ Count(completed, j) = 1
        /\ "write" \in Range(trace[j])

----------------------------------------------------------------------------
(***************************************************************************)
(* parse_request (src/http/request.rs), byte by byte.                      *)
(*                                                                         *)
(* A byte of the wire is a triple <<tag, a, b>>.  The header region is     *)
(* made of units httparse treats as a whole and which count as one byte    *)
(* each: the request line, one header line, the blank line.  The bytes of  *)
(* the body are ASCII bytes and the two bytes of a two-byte UTF-8          *)
(* character, so that a read can end between them.                         *)
(***************************************************************************)

\* Length of the scratch buffer `buf` a read fills, scaled down.
ScratchLen == 2
\* Largest number of bytes the peer sends after the header region.
MaxData == 3
\* Number of header slots handed to httparse.
HeaderSlots == 64

RequestLine(m, p) == <<"rl", m, p>>
HeaderLine(n, v) == <<"hd", n, v>>
BlankLine == <<"end", "", "">>
Ascii(c) == <<"asc", c, "">>
Lead == <<"lead", "", "">>
Cont == <<"cont", "", "">>
\* The three bytes of U+FFFD, the replacement character.
Replacement == <<<<"fffd1", "", "">>, <<"fffd2", "", "">>, <<"fffd3", "", "">>>>

\* Bytes that are not the first byte of a character.
ContinuationTags == {"cont", "fffd2", "fffd3"}

BodyBytes == {Ascii("a"), Lead, Cont}

\* Decimal text of the lengths the model uses.
Digits == <<"0", "1", "2", "3", "4", "5", "6", "7", "8", "9">>

\* str::parse::<usize>: the number a text denotes, -1 when it denotes none.
ParseUsize(v) ==
    IF \E n \in 1..Len(Digits) : Digits[n] = v
      THEN (CHOOSE n \in 1..Len(Digits) : Digits[n] = v) - 1
      ELSE -1

\* String::from_utf8_lossy(chunk): every byte that is not part of a
\* well-formed character becomes U+FFFD.
RECURSIVE from_utf8_lossy(_)
from_utf8_lossy(c) ==
    IF c = <<>> THEN <<>>
    ELSE IF c[1][1] = "lead"
      THEN IF Len(c) >= 2 /\ c[2][1] = "cont"
             THEN <<c[1], c[2]>> \o from_utf8_lossy(SubSeq(c, 3, Len(c)))
             ELSE Replacement \o from_utf8_lossy(Tail(c))
    ELSE IF c[1][1] = "cont"
      THEN Replacement \o from_utf8_lossy(Tail(c))
    ELSE <<c[1]>> \o from_utf8_lossy(Tail(c))

\* std::str::from_utf8(chunk).is_ok()
Utf8Valid(c) ==
    \A i \in 1..Len(c) :
        /\ c[i][1] = "lead" => (i < Len(c) /\ c[i + 1][1] = "cont")
        /\ c[i][1] = "cont" => (i > 1 /\ c[i - 1][1] = "lead")

\* std::str::from_utf8(chunk).unwrap_or(""): a chunk that is not well-formed
\* on its own contributes nothing.
from_utf8_or_empty(c) == IF Utf8Valid(c) THEN c ELSE <<>>

\* str::is_char_boundary(i) for a byte offset i of s
IsCharBoundary(s, i) ==
    \/ i = 0
    \/ i = Len(s)
    \/ i < Len(s) /\ s[i + 1][1] \notin ContinuationTags

\* Index of the first unit of s after the request line that is not a header
\* line, 0 when there is none.
FirstNonHeader(s) ==
    IF \E i \in 2..Len(s) : s[i][1] # "hd"
      THEN CHOOSE i \in 2..Len(s) :
               s[i][1] # "hd" /\ \A k \in 2..(i - 1) : s[k][1] = "hd"
      ELSE 0

\* req.parse(buf_str.as_bytes()): Partial until the blank line is there,
\* Complete(parsed_len) once it is, an error on anything else.
HttpParse(s) ==
    IF s = <<>> THEN [status |-> "partial", len |-> 0]
    ELSE IF s[1][1] # "rl" THEN [status |-> "error", len |-> 0]
    ELSE LET k == FirstNonHeader(s) IN
         IF k = 0 THEN
             IF Len(s) - 1 > HeaderSlots
               THEN [status |-> "error", len |-> 0]
               ELSE [status |-> "partial", len |-> 0]
         ELSE IF s[k][1] # "end" \/ k - 2 > HeaderSlots
           THEN [status |-> "error", len |-> 0]
         ELSE [status |-> "complete", len |-> k]

\* The value of the first header named exactly Content-Length, 0 when there
\* is none or when its value is not a number.
ContentLengthAnyCase(hs) ==
    LET names == {"Content-Length", "content-length"} IN
    IF \E i \in 1..Len(hs) : hs[i][1] \in names
      THEN LET i == CHOOSE i \in 1..Len(hs) :
                        /\ hs[i][1] \in names
                        /\ \A k \in 1..(i - 1) : hs[k][1] \notin names
               n == ParseUsize(hs[i][2])
           IN  IF n >= 0 THEN n ELSE 0
      ELSE 0
ContentLength(hs) ==
    IF \E i \in 1..Len(hs) : hs[i][1] = "Content-Length"
      THEN LET i == CHOOSE i \in 1..Len(hs) :
                        /\ hs[i][1] = "Content-Length"
                        /\ \A k \in 1..(i - 1) : hs[k][1] # "Content-Length"
               n == ParseUsize(hs[i][2])
           IN  IF n >= 0 THEN n ELSE 0
      ELSE 0

\* The headers httparse found in a header region of k units.
HeadersOf(s, k) == [i \in 1..(k - 2) |-> <<s[i + 1][2], s[i + 1][3]>>]

\* The Request built when the header region is complete: the body is empty.
RequestOf(s, k) ==
    [method |-> s[1][2], path |-> s[1][3], headers |-> HeadersOf(s, k),
     body |-> <<>>]

\* The wires of the model: a header region, whole or cut short, followed by
\* any bytes.  The declared Content-Length is independent of the number of
\* bytes that follow.
Lengths == {Digits[n + 1] : n \in 0..MaxData}

HeaderRegions ==
    {<<RequestLine("POST", "/p")>> \o x \o cl \o <<BlankLine>> :
        x \in {<<>>, <<HeaderLine("X-Test", "v")>>},
        cl \in {<<>>} \cup {<<HeaderLine("Content-Length", v)>> : v \in Lengths}
                \cup {<<HeaderLine("Content-Length", "x")>>,
                      <<HeaderLine("content-length", "1")>>,
                      <<HeaderLine("Content-Length", "1"),
                        HeaderLine("Content-Length", "0")>>}}

Prefixes(s) == {SubSeq(s, 1, k) : k \in 0..Len(s)}

Data == UNION {[1..k -> BodyBytes] : k \in 0..MaxData}

Wires == {h \o d : h \in UNION {Prefixes(r) : r \in HeaderRegions}, d \in Data}

\* HttpClient::send: the bytes of
\* format!("{} {} HTTP/1.1\r\nContent-Length: {}\r\n\r\n{}", method,
\* endpoint, body.len(), body)
ClientWire(m, p, body) ==
    <<RequestLine(m, p), HeaderLine("Content-Length", Digits[Len(body) + 1]),
      BlankLine>> \o body

\* What the client binary sends: the three methods of the API, a body that
\* is a str.
ClientMethods == {"GET", "POST", "DELETE"}
ClientWires ==
    {ClientWire(m, "/p", b) : m \in ClientMethods, b \in {d \in Data : Utf8Valid(d)}}

\* parse_request is entered with nothing read.
ParseInit ==
    /\ PoolInit
    /\ StoreIdle
    /\ DbIdle
    /\ RespondIdle
    /\ RouteIdle
    /\ wire \in Wires \cup ClientWires
    /\ wpos = 0
    /\ bytes_read = -1
    /\ buf_str = <<>>
    /\ phase = "header"
    /\ parsed_len = 0
    /\ body_len = 0
    /\ request = NoRequest

\* buf_reader.read(&mut buf) returning n > 0: the next n bytes of the wire.
Chunk(n) == SubSeq(wire, wpos + 1, wpos + n)

CanRead(n) == n >= 1 /\ n <= ScratchLen /\ wpos + n <= Len(wire)

\* let body = &buf_str[parsed_len..parsed_len + body_len]: slicing a str
\* anywhere but on a character boundary panics.
SliceBody(acc, plen, blen, req) ==
    IF IsCharBoundary(acc, plen) /\ IsCharBoundary(acc, plen + blen)
      THEN /\ phase' = "done"
           /\ request' = [req EXCEPT !.body = SubSeq(acc, plen + 1, plen + blen)]
      ELSE /\ phase' = "panic"
           /\ request' = req

\* The while loop of the body phase: read again, or slice the body out.
BodyLoop(acc, plen, blen, req) ==
    IF blen > Len(acc) - plen
      THEN phase' = "body" /\ request' = req
      ELSE SliceBody(acc, plen, blen, req)

\* One iteration of the header loop with a read of n bytes.
ReadHeader(n) ==
    /\ phase = "header"
    /\ CanRead(n)
    /\ LET acc == buf_str \o from_utf8_lossy(Chunk(n))
           r == HttpParse(acc)
       IN  /\ buf_str' = acc
           /\ CASE r.status = "partial" ->
                     /\ phase' = "header"
                     /\ UNCHANGED <<parsed_len, body_len, request>>
                [] r.status = "error" ->
                     /\ phase' = "parse_error"
                     /\ UNCHANGED <<parsed_len, body_len, request>>
                [] r.status = "complete" ->
                     LET req == RequestOf(acc, r.len)
                         blen == ContentLength(req.headers)
                     IN  /\ parsed_len' = r.len
                         /\ body_len' = blen
                         /\ BodyLoop(acc, r.len, blen, req)
    /\ wpos' = wpos + n
    /\ bytes_read' = n
    /\ UNCHANGED wire
    /\ UNCHANGED nonParseVars

\* One iteration of the body loop with a read of n bytes.
ReadBody(n) ==
    /\ phase = "body"
    /\ CanRead(n)
    /\ LET acc == buf_str \o from_utf8_or_empty(Chunk(n))
       IN  /\ buf_str' = acc
           /\ BodyLoop(acc, parsed_len, body_len, request)
    /\ wpos' = wpos + n
    /\ bytes_read' = n
    /\ UNCHANGED <<wire, parsed_len, body_len>>
    /\ UNCHANGED nonParseVars

\* if bytes_read == 0 { return Err(ConnectionReset) }, in either loop
AfterZeroReadBodyReturned(ph) == IF ph = "body" THEN "done" ELSE "reset"
AfterZeroRead(ph) == "reset"

\* The peer has closed and everything it sent has been read: read returns 0.
ReadEof ==
    /\ phase \in {"header", "body"}
    /\ wpos = Len(wire)
    /\ bytes_read' = 0
    /\ phase' = AfterZeroRead(phase)
    /\ UNCHANGED <<wire, wpos, buf_str, parsed_len, body_len, request>>
    /\ UNCHANGED nonParseVars

ParseNext ==
    \/ \E n \in 1..ScratchLen : ReadHeader(n)
    \/ \E n \in 1..ScratchLen : ReadBody(n)
    \/ ReadEof

ParseSpec == ParseInit /\ [][ParseNext]_vars

----------------------------------------------------------------------------
\* Properties of parse_request

\* parse_request has returned or unwound.
ParseEnded == phase \in {"done", "reset", "parse_error", "panic"}

\* The wire carries a Content-Length header.
HasContentLength(w) ==
    \E i \in 1..Len(w) : w[i][1] = "hd" /\ w[i][2] = "Content-Length"

\* What parse_request returns when the whole wire arrives in one read.
SingleReadRequest(w) ==
    LET acc == from_utf8_lossy(w)
        k == HttpParse(acc).len
        req == RequestOf(acc, k)
    IN  [req EXCEPT !.body = SubSeq(acc, k + 1, k + ContentLength(req.headers))]

\* A message for which one read of the whole wire returns a Request: the
\* header region is complete, the bytes after it are well-formed UTF-8 and
\* there are at least Content-Length of them, ending on a character.
WellFormed(w) ==
    LET r == HttpParse(w) IN
    /\ r.status = "complete"
    /\ Utf8Valid(w)
    /\ Len(w) - r.len >= ContentLength(HeadersOf(w, r.len))
    /\ IsCharBoundary(w, r.len + ContentLength(HeadersOf(w, r.len)))

\* C14: every Request parse_request returns for a wire whose Content-Length
\* parses to N has a body of exactly N bytes, and they are the N bytes that
\* follow the header region on the wire; later bytes are not part of it.
C14_BodyIsWireBytes ==
    (phase = "done" /\ HasContentLength(wire)) =>
        /\ Len(request.body) = body_len
        /\ parsed_len + body_len <= Len(wire)
        /\ request.body = SubSeq(wire, parsed_len + 1, parsed_len + body_len)

\* C15: whatever the split of the wire into non-empty reads, parse_request
\* ends by returning the Request it returns when the whole message arrives
\* in a single read.
C15_SplitIndependent ==
    (WellFormed(wire) /\ ParseEnded) =>
        /\ phase = "done"
        /\ request = SingleReadRequest(wire)

\* C16: a message whose header region and whose body are each longer than
\* the scratch buffer is parsed successfully, the header values and the
\* body being those of the wire.
C16_LargerThanScratch ==
    LET k == HttpParse(wire).len
        n == ContentLength(HeadersOf(wire, k))
    IN  (WellFormed(wire) /\ k > ScratchLen /\ n > ScratchLen /\ ParseEnded) =>
            /\ phase = "done"
            /\ request.headers = HeadersOf(wire, k)
            /\ request.body = SubSeq(wire, k + 1, k + n)

\* C17: a zero-length read, before the header region is complete or before
\* header-len + content-length bytes are accumulated, ends parse_request
\* with ConnectionReset, and nothing else does; a Request that is returned
\* has a body of Content-Length bytes, all of them accumulated, and when
\* the wire is plain ASCII all of them received.
C17_EofIsConnectionReset ==
    /\ bytes_read = 0 => phase = "reset"
    /\ phase = "reset" =>
           /\ bytes_read = 0
           /\ wpos = Len(wire)
           /\ parsed_len = 0 \/ Len(buf_str) - parsed_len < body_len
    /\ phase = "done" =>
           /\ Len(request.body) = body_len
           /\ Len(buf_str) >= parsed_len + body_len
           /\ (\A i \in 1..Len(wire) : wire[i][1] \notin {"lead", "cont"})
                  => Len(wire) >= parsed_len + body_len

\* The peer closed after the header region and a part of the body.
C17_Witness ==
    /\ phase = "reset"
    /\ parsed_len > 0
    /\ Len(buf_str) > parsed_len
    /\ Len(buf_str) - parsed_len < body_len

----------------------------------------------------------------------------
(***************************************************************************)
(* respond (src/http/server.rs): the serialization of a Response.          *)
(***************************************************************************)

\* Response.status is an Option: None is written as -1.
StatusNone == -1

\* The status line; it counts as one byte, like the request line.
StatusLine(code, phrase) == <<"sl", ToString(code), phrase>>

\* The codes code_to_string has a reason phrase for.
KnownCodes == {200, 204, 400, 404, 500}

code_to_string(code) ==
    CASE code = 400 -> "Bad Request"
      [] code = 404 -> "Not Found"
      [] code = 200 -> "OK"
      [] code = 204 -> "No Content"
      [] code = 500 -> "Internal Server Error"

\* resp.status.unwrap_or(500)
StatusOrOk(r) == IF r.status = StatusNone THEN 200 ELSE r.status
StatusOrDefault(r) == IF r.status = StatusNone THEN 500 ELSE r.status

\* The text respond formats: status line, the Content-Length computed from
\* the body, every header of resp.headers in order, a blank line, the body.
Serialize(r) ==
    <<StatusLine(StatusOrDefault(r), code_to_string(StatusOrDefault(r)))>>
    \o <<HeaderLine("Content-Length", Digits[Len(r.body) + 1])>>
    \o [i \in 1..Len(r.headers) |-> HeaderLine(r.headers[i][1], r.headers[i][2])]
    \o <<BlankLine>>
    \o r.body

\* The Response values a caller can build: the fields are public.
CallerHeaders ==
    {<<>>,
     <<<<"X-Test", "v">>>>,
     <<<<"Content-Length", "9">>>>,
     <<<<"X-Test", "v">>, <<"Content-Length", "0">>>>}

Responses ==
    [status : KnownCodes \cup {StatusNone, 403},
     headers : CallerHeaders,
     body : Data]

RespondInit ==
    /\ PoolInit
    /\ StoreIdle
    /\ DbIdle
    /\ ParseIdle
    /\ RouteIdle
    /\ response \in Responses
    /\ written = <<>>
    /\ rphase = "respond"

\* stream.write_all(format!(...)) succeeds; code_to_string panics on a code
\* it has no phrase for, before anything is written.
RespondWrite ==
    /\ rphase = "respond"
    /\ IF StatusOrDefault(response) \in KnownCodes
         THEN /\ written' = Serialize(response)
              /\ rphase' = "written"
         ELSE /\ written' = <<>>
              /\ rphase' = "panic"
    /\ UNCHANGED response
    /\ UNCHANGED nonRespondVars

\* write_all fails after a part of the text: the error is logged and
\* respond returns.
RespondWriteFails ==
    /\ rphase = "respond"
    /\ StatusOrDefault(response) \in KnownCodes
    /\ \E k \in 0..(Len(Serialize(response)) - 1) :
           written' = SubSeq(Serialize(response), 1, k)
    /\ rphase' = "write_failed"
    /\ UNCHANGED response
    /\ UNCHANGED nonRespondVars

RespondNext ==
    \/ RespondWrite
    \/ RespondWriteFails

RespondSpec == RespondInit /\ [][RespondNext]_vars

----------------------------------------------------------------------------
\* Properties of respond

\* The Content-Length headers of a serialized message.
ContentLengthLines(w) ==
    {i \in 1..Len(w) : w[i][1] = "hd" /\ w[i][2] = "Content-Length"}

\* C18: the serialized form of every Response has exactly one
\* Content-Length header, whose value is the byte length of the body,
\* whatever the caller put in Response.headers.
C18_OneContentLength ==
    rphase = "written" =>
        /\ Cardinality(ContentLengthLines(written)) = 1
        /\ \A i \in ContentLengthLines(written) :
               written[i][3] = Digits[Len(response.body) + 1]

----------------------------------------------------------------------------
(***************************************************************************)
(* The router (src/routes.rs), the handlers (src/endpoints.rs), the store  *)
(* (src/database.rs) and the closure main hands to serve                   *)
(* (src/bin/server.rs).                                                    *)
(*                                                                         *)
(* A path is the sequence of its segments; a segment of a pattern is       *)
(* <<"lit", text>> or <<"par", name>>.                                     *)
(***************************************************************************)

\* Largest number of item ids the store hands out.
MaxItems == 2

Endpoints == {"ORDERS", "ORDER_BY_ID", "ITEMS", "ITEM_BY_ID"}

Methods == {"GET", "POST", "DELETE"}

\* make_paths!: the pattern registered for each endpoint.
ApiPrefix == <<<<"lit", "api">>, <<"lit", "v1">>, <<"lit", "orders">>>>

Pattern(e) ==
    CASE e = "ORDERS" -> ApiPrefix
      [] e = "ORDER_BY_ID" -> ApiPrefix \o <<<<"par", "order_id">>>>
      [] e = "ITEMS" ->
             ApiPrefix \o <<<<"par", "order_id">>, <<"lit", "items">>>>
      [] e = "ITEM_BY_ID" ->
             ApiPrefix \o <<<<"par", "order_id">>, <<"lit", "items">>,
                            <<"par", "item_id">>>>

\* A path matches a pattern segment by segment; a parameter takes one
\* non-empty segment.
Matches(pat, path) ==
    /\ Len(pat) = Len(path)
    /\ \A i \in 1..Len(pat) :
           IF pat[i][1] = "lit" THEN path[i] = pat[i][2] ELSE path[i] # ""

\* self.routes.at(&request.path): the endpoint whose pattern matches.
HasRoute(path) == \E e \in Endpoints : Matches(Pattern(e), path)

RouteAt(path) == CHOOSE e \in Endpoints : Matches(Pattern(e), path)

\* route.params: parameter name -> matched segment
ParamsAllFirst(e, path) ==
    LET pat == Pattern(e)
        names == {pat[i][2] : i \in {k \in 1..Len(pat) : pat[k][1] = "par"}}
    IN  [n \in names |-> path[Len(ApiPrefix) + 1]]
ParamsOf(e, path) ==
    LET pat == Pattern(e)
        names == {pat[i][2] : i \in {k \in 1..Len(pat) : pat[k][1] = "par"}}
    IN  [n \in names |->
            path[CHOOSE i \in 1..Len(pat) : pat[i] = <<"par", n>>]]

\* No params map: no handler was called.
NoParams == <<>>

\* MockDB::new()
NewDb == [rows |-> <<>>, next |-> 0]

\* Results: Ok carries the items of the response body, an error its kind.
Ok(items) == [kind |-> "Ok", msg |-> "", items |-> items]
Err(e, msg) == [kind |-> e, msg |-> msg, items |-> <<>>]

\* insert_orders: one row per item, ids taken from the counter in order
insert_orders(d, items, table) ==
    LET new == [i \in 1..Len(items) |->
                   [table |-> table, id |-> d.next + i - 1, name |-> items[i]]]
    IN  [res |-> Ok(new),
         db |-> [rows |-> d.rows \o new, next |-> d.next + Len(items)]]

\* get_order: the items of a table, NotFound when it has none
get_order_or_empty(d, table) ==
    [res |-> Ok(SelectSeq(d.rows, LAMBDA r : r.table = table)), db |-> d]
get_order(d, table) ==
    LET items == SelectSeq(d.rows, LAMBDA r : r.table = table)
    IN  [res |-> IF items = <<>> THEN Err("NotFound", "No orders for table")
                                 ELSE Ok(items),
         db |-> d]

\* Index of the first row of a table with an item id, 0 when there is none.
PositionAnyTable(d, table, id) ==
    LET hits == {i \in 1..Len(d.rows) : d.rows[i].id = id}
    IN  IF hits = {} THEN 0 ELSE CHOOSE i \in hits : \A k \in hits : i <= k
Position(d, table, id) ==
    LET hits == {i \in 1..Len(d.rows) :
                    d.rows[i].table = table /\ d.rows[i].id = id}
    IN  IF hits = {} THEN 0 ELSE CHOOSE i \in hits : \A k \in hits : i <= k

get_order_item(d, table, id) ==
    LET i == Position(d, table, id)
    IN  [res |-> IF i = 0 THEN Err("NotFound", "No item with id")
                          ELSE Ok(<<d.rows[i]>>),
         db |-> d]

delete_item_keeps_row(d, table, id) ==
    LET i == Position(d, table, id)
    IN  IF i = 0
          THEN [res |-> Err("NotFound", "No item with id"), db |-> d]
          ELSE [res |-> Ok(<<d.rows[i]>>), db |-> d]
delete_item(d, table, id) ==
    LET i == Position(d, table, id)
    IN  IF i = 0
          THEN [res |-> Err("NotFound", "No item with id"), db |-> d]
          ELSE [res |-> Ok(<<d.rows[i]>>),
                db |-> [d EXCEPT !.rows = SubSeq(d.rows, 1, i - 1)
                                      \o SubSeq(d.rows, i + 1, Len(d.rows))]]

\* get_id: the parameter parsed as u32, -1 standing for Err(BadRequest)
get_id_or_zero(params, key) ==
    IF key \in DOMAIN params
      THEN IF ParseUsize(params[key]) < 0 THEN 0 ELSE ParseUsize(params[key])
      ELSE 0
get_id(params, key) ==
    IF key \in DOMAIN params THEN ParseUsize(params[key]) ELSE -1

\* The handlers of endpoints.rs; each returns the Result and the store it
\* leaves behind.
new_order(r, params, d) ==
    IF r.body.valid
      THEN insert_orders(d, r.body.items, r.body.table_number)
      ELSE [res |-> Err("BadRequest", "invalid NewOrder"), db |-> d]

get_items(r, params, d) ==
    LET order_id == get_id(params, "order_id")
    IN  IF order_id < 0
          THEN [res |-> Err("BadRequest", "order_id"), db |-> d]
          ELSE get_order(d, order_id)

get_order_item_handler(r, params, d) ==
    LET order_id == get_id(params, "order_id")
        item_id == get_id(params, "item_id")
    IN  IF order_id < 0 THEN [res |-> Err("BadRequest", "order_id"), db |-> d]
        ELSE IF item_id < 0
          THEN [res |-> Err("BadRequest", "item_id"), db |-> d]
        ELSE get_order_item(d, order_id, item_id)

delete_order_item(r, params, d) ==
    LET order_id == get_id(params, "order_id")
        item_id == get_id(params, "item_id")
    IN  IF order_id < 0 THEN [res |-> Err("BadRequest", "order_id"), db |-> d]
        ELSE IF item_id < 0
          THEN [res |-> Err("BadRequest", "item_id"), db |-> d]
        ELSE delete_item(d, order_id, item_id)

\* Calling a handler through its function pointer.
Call(h, r, params, d) ==
    CASE h = "new_order" -> new_order(r, params, d)
      [] h = "get_items" -> get_items(r, params, d)
      [] h = "get_order_item" -> get_order_item_handler(r, params, d)
      [] h = "delete_order_item" -> delete_order_item(r, params, d)

\* create_http_router: HttpRouter::new() followed by four add_route calls.
\* ITEMS has no entry in handlers.
create_http_router ==
    [e \in {"ORDERS", "ORDER_BY_ID", "ITEM_BY_ID"} |->
        CASE e = "ORDERS" -> [m \in {"POST"} |-> "new_order"]
          [] e = "ORDER_BY_ID" -> [m \in {"GET"} |-> "get_items"]
          [] e = "ITEM_BY_ID" ->
                 [m \in {"GET", "DELETE"} |->
                     IF m = "GET" THEN "get_order_item"
                                  ELSE "delete_order_item"]]

\* The three ways route fails before any handler is called.
NoRouteOtherKind == Err("BadRequest", "no match")
NoRoute == Err("NotFound", "no match")

NoMethods == Err("NotFound", "No method associated to this route")

NoHandlerOtherKind == Err("MethodNotAllowed", "No handler for")
NoHandler == Err("NotFound", "No handler for")

\* A return of route before any handler is called.
Unrouted(res, d) ==
    [called |-> "none", passed |-> NoParams, res |-> res, db |-> d]

\* HttpRouter::route: the handler called ("none" when none is), the params
\* it is given, the Result and the store afterwards.
Route(hs, r, d) ==
    IF ~HasRoute(r.path) THEN Unrouted(NoRoute, d)
    ELSE LET e == RouteAt(r.path) IN
      IF e \notin DOMAIN hs THEN Unrouted(NoMethods, d)
      ELSE IF r.method \notin DOMAIN hs[e] THEN Unrouted(NoHandler, d)
      ELSE LET ps == ParamsOf(e, r.path)
               out == Call(hs[e][r.method], r, ps, d)
           IN  [called |-> hs[e][r.method], passed |-> ps, res |-> out.res,
                db |-> out.db]

\* route takes &self: the handler table after a call is the one before.
TableCleared(hs) == <<>>
TableAfterRoute(hs) == hs

\* The match on the result in main: the status of the Response returned.
StatusOf(res) ==
    CASE res.kind = "Ok" -> 200
      [] res.kind = "NotFound" -> 404
      [] res.kind = "BadRequest" -> 400
      [] OTHER -> 500

\* Request bodies: text that is no NewOrder (the empty body among it), or a
\* NewOrder with its table number and item names.
NoOrder == [valid |-> FALSE, table_number |-> 0, items |-> <<>>]

Bodies ==
    {NoOrder} \cup [valid : {TRUE}, table_number : {1, 2},
                    items : {<<>>, <<"a">>, <<"a", "b">>}]

\* Paths: one for each pattern and each value of its parameters, and some
\* that match no pattern.
IdSegments == {"1", "2", "x"}

Orders == <<"api", "v1", "orders">>

Paths ==
    {Orders, <<>>, <<"api", "v1", "missing">>, <<"api", "v2", "orders", "1">>}
    \cup {Orders \o <<t>> : t \in IdSegments}
    \cup {Orders \o <<t, "items">> : t \in IdSegments}
    \cup {Orders \o <<t, "items", i>> : t \in IdSegments, i \in {"0", "1", "x"}}
    \cup {Orders \o <<"1", "items", "0", "more">>}

\* Every method on every path; a POST also with a well-formed order, and
\* on the path of ORDERS with every body.
Requests ==
    [method : Methods, path : Paths, body : {NoOrder}]
    \cup [method : {"POST"}, path : Paths,
          body : {[valid |-> TRUE, table_number |-> 1, items |-> <<"a">>]}]
    \cup [method : {"POST"}, path : {Orders}, body : Bodies]

\* No request has been handled yet.
NoRq == [method |-> "", path |-> <<>>, body |-> NoOrder]

\* main: the router of create_http_router, an empty MockDB.
RouteInit ==
    /\ PoolInit
    /\ StoreIdle
    /\ DbIdle
    /\ ParseIdle
    /\ RespondIdle
    /\ handlers = create_http_router
    /\ db = NewDb
    /\ db_before = NewDb
    /\ rq = NoRq
    /\ result = Err("none", "")
    /\ invoked = "none"
    /\ passed = NoParams
    /\ answer = 0
    /\ added = <<>>

\* The closure handed to serve, for one request: lock the store, route,
\* turn the Result into a Response.
Serve(r) ==
    /\ LET out == Route(handlers, r, db)
       IN  /\ out.db.next <= MaxItems
           /\ db_before' = db
           /\ db' = out.db
           /\ result' = out.res
           /\ invoked' = out.called
           /\ passed' = out.passed
           /\ answer' = StatusOf(out.res)
    /\ rq' = r
    /\ handlers' = TableAfterRoute(handlers)
    /\ UNCHANGED added
    /\ UNCHANGED nonRouteVars

RouteNext == \E r \in Requests : Serve(r)

RouteSpec == RouteInit /\ [][RouteNext]_vars

----------------------------------------------------------------------------
\* Properties of the router

\* C19: route on a request whose path matches no registered pattern returns
\* NotFound, calls no handler and leaves the store as it was.
C19_NoPatternIsNotFound ==
    (rq # NoRq /\ \A e \in Endpoints : ~Matches(Pattern(e), rq.path)) =>
        /\ result.kind = "NotFound"
        /\ invoked = "none"
        /\ db = db_before

\* A request for an unknown path, made when the store holds items.
C19_Witness ==
    /\ rq.path = <<"api", "v1", "missing">>
    /\ db.rows # <<>>
    /\ result.kind = "NotFound"

\* The request's path matches the pattern of e and no handler is registered
\* for its method on e.
NoHandlerFor(r, e) ==
    /\ Matches(Pattern(e), r.path)
    /\ e \notin DOMAIN handlers \/ r.method \notin DOMAIN handlers[e]

\* C20: route on a request whose path matches a pattern for which its
\* method has no handler (other methods registered, or none at all)
\* returns NotFound, calls no handler, leaves the store as it was, and the
\* server answers 404.
C20_NoMethodIsNotFound ==
    (rq # NoRq /\ \E e \in Endpoints : NoHandlerFor(rq, e)) =>
        /\ result.kind = "NotFound"
        /\ invoked = "none"
        /\ db = db_before
        /\ answer = 404

\* POST /api/v1/orders/1 with items in the store: the pattern has a GET
\* handler only.
C20_Witness ==
    /\ rq.method = "POST"
    /\ rq.path = <<"api", "v1", "orders", "1">>
    /\ "GET" \in DOMAIN handlers["ORDER_BY_ID"]
    /\ db.rows # <<>>
    /\ answer = 404

\* The placeholders of a pattern.
Placeholders(pat) ==
    {pat[i][2] : i \in {k \in 1..Len(pat) : pat[k][1] = "par"}}

\* C21: when route dispatches to a handler, the params map it passes has
\* exactly one entry per placeholder of the matched pattern, bound to the
\* raw text of the corresponding path segment, and no other entry.
C21_ParamsArePlaceholders ==
    invoked # "none" =>
        /\ \E e \in Endpoints :
               /\ Matches(Pattern(e), rq.path)
               /\ DOMAIN passed = Placeholders(Pattern(e))
               /\ \A i \in 1..Len(Pattern(e)) :
                      Pattern(e)[i][1] = "par" =>
                          passed[Pattern(e)[i][2]] = rq.path[i]
        /\ rq.path = <<"api", "v1", "orders", "2", "items", "1">> =>
               passed = [order_id |-> "2", item_id |-> "1"]

\* A handler was given two parameters, one of them not a number.
C21_Witness ==
    /\ invoked = "get_order_item"
    /\ passed = [order_id |-> "2", item_id |-> "x"]

----------------------------------------------------------------------------
(***************************************************************************)
(* Building a router: HttpRouter::new and add_route (src/routes.rs), used  *)
(* from one thread as in test_router, with route calls in between.         *)
(***************************************************************************)

\* Largest number of (pattern, method) pairs registered.
MaxRoutes == 2

\* The handler registered for a pair, "none" when there is none.
HandlerAt(hs, e, m) ==
    IF e \in DOMAIN hs /\ m \in DOMAIN hs[e] THEN hs[e][m] ELSE "none"

\* add_route: entry(route).or_insert_with(HashMap::new), then
\* insert(method, handler)
add_route_new_entry(hs, m, e, h) ==
    [x \in DOMAIN hs \cup {e} |-> IF x = e THEN [y \in {m} |-> h] ELSE hs[x]]
add_route(hs, m, e, h) ==
    LET entry == IF e \in DOMAIN hs THEN hs[e] ELSE <<>>
        after == [y \in DOMAIN entry \cup {m} |-> IF y = m THEN h ELSE entry[y]]
    IN  [x \in DOMAIN hs \cup {e} |-> IF x = e THEN after ELSE hs[x]]

\* No add_route call has been made.
NoAdd == [method |-> "", route |-> "", handler |-> "none", prev |-> <<>>]

\* A store holding one item of table 1.
OneItemDb == insert_orders(NewDb, <<"a">>, 1).db

\* HttpRouter::new(): every pattern is known, no handler is registered.
BuildInit ==
    /\ PoolInit
    /\ StoreIdle
    /\ DbIdle
    /\ ParseIdle
    /\ RespondIdle
    /\ handlers = <<>>
    /\ db \in {NewDb, OneItemDb}
    /\ db_before = db
    /\ rq = NoRq
    /\ result = Err("none", "")
    /\ invoked = "none"
    /\ passed = NoParams
    /\ answer = 0
    /\ added = NoAdd

\* router.add_route(m, e, h); what was observed of the last route call
\* belongs to the table before and is forgotten.
AddRoute(m, e, h) ==
    /\ LET new == add_route(handlers, m, e, h)
       IN  /\ Cardinality({x \in Endpoints \X Methods :
                              HandlerAt(new, x[1], x[2]) # "none"}) <= MaxRoutes
           /\ handlers' = new
    /\ added' = [method |-> m, route |-> e, handler |-> h, prev |-> handlers]
    /\ rq' = NoRq
    /\ result' = Err("none", "")
    /\ invoked' = "none"
    /\ passed' = NoParams
    /\ answer' = 0
    /\ UNCHANGED <<db, db_before>>
    /\ UNCHANGED nonRouteVars

\* The requests made of a router under construction.
BuildRequests ==
    [method : {"GET", "DELETE"},
     path : {Orders, Orders \o <<"1", "items", "0">>,
             Orders \o <<"1", "items", "x">>, Orders \o <<"x", "items", "0">>},
     body : {NoOrder}]

BuildNext ==
    \/ \E m \in {"GET", "DELETE"}, e \in {"ORDERS", "ITEM_BY_ID"},
          h \in {"get_items", "delete_order_item"} : AddRoute(m, e, h)
    \/ \E r \in BuildRequests : Serve(r)

BuildSpec == BuildInit /\ [][BuildNext]_vars

----------------------------------------------------------------------------
\* Properties of add_route

\* C22: add_route(method, pattern, handler) sets the handler of exactly
\* that pair: registered again, the later handler is the one dispatched;
\* the handler of every other pair, other methods of the same pattern
\* included, is the one it was.
C22_AddRouteSetsOnePair ==
    /\ added # NoAdd =>
           /\ HandlerAt(handlers, added.route, added.method) = added.handler
           /\ \A e \in Endpoints, m \in Methods :
                  <<e, m>> # <<added.route, added.method>> =>
                      HandlerAt(handlers, e, m) = HandlerAt(added.prev, e, m)
    /\ invoked # "none" =>
           invoked = HandlerAt(handlers, RouteAt(rq.path), rq.method)

\* A pair was registered a second time with another handler, next to
\* another method of the same pattern, and the later handler was dispatched.
C22_Witness ==
    /\ added # NoAdd
    /\ HandlerAt(added.prev, added.route, added.method)
           \notin {"none", added.handler}
    /\ \E m \in Methods :
           m # added.method /\ HandlerAt(handlers, added.route, m) # "none"
    /\ invoked = added.handler
    /\ RouteAt(rq.path) = added.route

\* The path parameters a handler reads with get_id.
Needs(h) ==
    CASE h = "get_items" -> {"order_id"}
      [] h \in {"get_order_item", "delete_order_item"} -> {"order_id", "item_id"}
      [] OTHER -> {}

\* C29: a handler called with a params map that lacks a parameter it
\* reads, or holds text for it that is no u32, returns BadRequest: the
\* store is as it was and the request is answered with 400.
C29_BadParameterIsBadRequest ==
    (/\ invoked # "none"
     /\ \E key \in Needs(invoked) :
            key \notin DOMAIN passed \/ ParseUsize(passed[key]) < 0) =>
        /\ result.kind = "BadRequest"
        /\ db = db_before
        /\ answer = 400

\* get_items, registered on a pattern without placeholder, was called with
\* an empty params map on a store holding an item.
C29_Witness ==
    /\ invoked = "get_items"
    /\ passed = NoParams
    /\ db_before = OneItemDb
    /\ answer = 400

----------------------------------------------------------------------------
(***************************************************************************)
(* The handler closure of src/bin/server.rs, run by the workers of the     *)
(* pool on one router and one Arc<Mutex<MockDB>>:                          *)
(*   db.lock().map_err(InternalServerError)                                *)
(*     .and_then(|mut db| router.route(request, &mut *db))                 *)
(* followed by the match that turns the Result into a Response.            *)
(***************************************************************************)

StoreWorkers == 1..MaxWorkers

\* errors::Error, and a boxed error that is no errors::Error
TaxonomyKinds ==
    {"NoResponse", "NotFound", "BadRequest", "InternalServerError",
     "ConnectionReset"}
ForeignError == "Foreign"

\* serde_json::to_string of the items a handler returns
serialize(items) == <<"json", items>>

\* Response::ok_with_body, Response::error, Response::internal_server_error
ok_with_body(b) == [status |-> 200, headers |-> <<>>, body |-> b]
error(code) == [status |-> code, headers |-> <<>>, body |-> <<>>]
internal_server_error == error(500)

\* The match on the Result: Ok carries the handler's Response; an error is
\* downcast to errors::Error and mapped by kind.
ResponseForOtherIsBadRequest(res) ==
    CASE res.kind = "Ok" -> ok_with_body(serialize(res.items))
      [] res.kind \notin TaxonomyKinds -> internal_server_error
      [] res.kind = "NotFound" -> error(404)
      [] OTHER -> error(400)
ResponseFor(res) ==
    CASE res.kind = "Ok" -> ok_with_body(serialize(res.items))
      [] res.kind \notin TaxonomyKinds -> internal_server_error
      [] res.kind = "NotFound" -> error(404)
      [] res.kind = "BadRequest" -> error(400)
      [] OTHER -> internal_server_error

NoReply == [status |-> StatusNone, headers |-> <<>>, body |-> <<>>]
NoResult == Err("none", "")

\* The requests the workers are handed.
StoreRequests ==
    {[method |-> "POST", path |-> Orders,
      body |-> [valid |-> TRUE, table_number |-> 1, items |-> <<"a">>]],
     [method |-> "GET", path |-> Orders \o <<"1">>, body |-> NoOrder],
     [method |-> "DELETE", path |-> Orders \o <<"1", "items", "0">>,
      body |-> NoOrder],
     [method |-> "GET", path |-> Orders \o <<"x">>, body |-> NoOrder],
     [method |-> "GET", path |-> <<>>, body |-> NoOrder]}

IsInsert(r) == r.method = "POST" /\ r.path = Orders /\ r.body.valid

\* main: a new MockDB behind a Mutex, every worker waiting for a request.
StoreInit ==
    /\ PoolInit
    /\ ParseIdle
    /\ RespondIdle
    /\ RouteIdle
    /\ DbIdle
    /\ store = NewDb
    /\ guard = 0
    /\ store_poisoned = FALSE
    /\ wpc = [w \in StoreWorkers |-> "idle"]
    /\ wrq = [w \in StoreWorkers |-> NoRq]
    /\ wsnap = [w \in StoreWorkers |-> <<>>]
    /\ wres = [w \in StoreWorkers |-> NoResult]
    /\ reply = [w \in StoreWorkers |-> NoReply]
    /\ issued = <<>>
    /\ removed = <<>>

\* A worker is handed a parsed request: the closure is entered.  Inserts
\* are accepted while the id counter stays within MaxItems.
Accept(w, r) ==
    /\ wpc[w] = "idle"
    /\ IsInsert(r) =>
           store.next + Len(r.body.items)
             + Cardinality({v \in StoreWorkers :
                   wpc[v] \in {"accepted", "routing"} /\ IsInsert(wrq[v])})
             <= MaxItems
    /\ wpc' = [wpc EXCEPT ![w] = "accepted"]
    /\ wrq' = [wrq EXCEPT ![w] = r]
    /\ wres' = [wres EXCEPT ![w] = NoResult]
    /\ reply' = [reply EXCEPT ![w] = NoReply]
    /\ UNCHANGED <<store, guard, store_poisoned, wsnap, issued, removed>>
    /\ UNCHANGED nonStoreVars

\* Mutex::lock blocks while another thread holds the guard.
CanLockHeld(g) == TRUE
CanLock(g) == g = 0

\* The guard lives in the and_then closure: it is held while route runs.
GuardDropped(w) == 0
GuardOf(w) == w

\* db.lock(): Err on a poisoned mutex, mapped to InternalServerError (and
\* and_then is skipped); else the guard, with which route is entered.
LockStoreIntoInner(w) ==
    /\ wpc[w] = "accepted"
    /\ CanLock(guard)
    /\ guard' = GuardOf(w)
    /\ wsnap' = [wsnap EXCEPT ![w] = store]
    /\ wpc' = [wpc EXCEPT ![w] = "routing"]
    /\ UNCHANGED <<store, store_poisoned, wrq, wres, reply, issued, removed>>
    /\ UNCHANGED nonStoreVars
LockStore(w) ==
    /\ wpc[w] = "accepted"
    /\ CanLock(guard)
    /\ IF store_poisoned
         THEN /\ wres' = [wres EXCEPT
                            ![w] = Err("InternalServerError", "poisoned")]
              /\ wpc' = [wpc EXCEPT ![w] = "routed"]
              /\ UNCHANGED <<guard, wsnap>>
         ELSE /\ guard' = GuardOf(w)
              /\ wsnap' = [wsnap EXCEPT ![w] = store]
              /\ wpc' = [wpc EXCEPT ![w] = "routing"]
              /\ UNCHANGED wres
    /\ UNCHANGED <<store, store_poisoned, wrq, reply, issued, removed>>
    /\ UNCHANGED nonStoreVars

Ids(items) == [i \in 1..Len(items) |-> items[i].id]

\* router.route(request, &mut *db) returns: the store is what the handler
\* made of the store it read; the guard is dropped with the closure.
Handle(w) ==
    /\ wpc[w] = "routing"
    /\ LET out == Route(create_http_router, wrq[w], wsnap[w])
       IN  /\ store' = out.db
           /\ wres' = [wres EXCEPT ![w] = out.res]
           /\ issued' = IF out.called = "new_order" /\ out.res.kind = "Ok"
                          THEN issued \o Ids(out.res.items) ELSE issued
           /\ removed' = IF out.called = "delete_order_item"
                              /\ out.res.kind = "Ok"
                           THEN removed \o Ids(out.res.items) ELSE removed
    /\ guard' = IF guard = w THEN 0 ELSE guard
    /\ wsnap' = [wsnap EXCEPT ![w] = <<>>]
    /\ wpc' = [wpc EXCEPT ![w] = "routed"]
    /\ UNCHANGED <<store_poisoned, wrq, reply>>
    /\ UNCHANGED nonStoreVars

\* The handler panics inside insert_orders (self.1 += 1 overflows in a
\* build with overflow checks, before self.0 is extended): the guard is
\* dropped by the unwinding, which poisons the mutex; the worker is gone.
HandlerPanics(w) ==
    /\ wpc[w] = "routing"
    /\ IsInsert(wrq[w])
    /\ store_poisoned' = TRUE
    /\ guard' = IF guard = w THEN 0 ELSE guard
    /\ wsnap' = [wsnap EXCEPT ![w] = <<>>]
    /\ wpc' = [wpc EXCEPT ![w] = "panicked"]
    /\ UNCHANGED <<store, wrq, wres, reply, issued, removed>>
    /\ UNCHANGED nonStoreVars

\* The closure returns the Response made of the Result.
Return(w) ==
    /\ wpc[w] = "routed"
    /\ reply' = [reply EXCEPT ![w] = ResponseFor(wres[w])]
    /\ wpc' = [wpc EXCEPT ![w] = "idle"]
    /\ UNCHANGED <<store, guard, store_poisoned, wrq, wsnap, wres, issued,
                   removed>>
    /\ UNCHANGED nonStoreVars

StoreNext ==
    \/ \E w \in StoreWorkers, r \in StoreRequests : Accept(w, r)
    \/ \E w \in StoreWorkers : LockStore(w)
    \/ \E w \in StoreWorkers : Handle(w)
    \/ \E w \in StoreWorkers : HandlerPanics(w)
    \/ \E w \in StoreWorkers : Return(w)

StoreSpec == StoreInit /\ [][StoreNext]_vars

----------------------------------------------------------------------------
\* Properties of the handler closure

\* C24: an error of kind NotFound is answered with 404, one of kind
\* BadRequest with 400, one of any other kind of errors::Error and one
\* that is no errors::Error with 500; the response has no body and no
\* headers.
C24_ErrorMapping ==
    /\ \A k \in TaxonomyKinds \cup {ForeignError} :
           ResponseFor(Err(k, "m")) =
               [status |-> CASE k = "NotFound" -> 404
                             [] k = "BadRequest" -> 400
                             [] OTHER -> 500,
                headers |-> <<>>, body |-> <<>>]
    /\ \A w \in StoreWorkers :
           reply[w] # NoReply /\ wres[w].kind # "Ok" =>
               /\ reply[w].headers = <<>>
               /\ reply[w].body = <<>>
               /\ reply[w].status = CASE wres[w].kind = "NotFound" -> 404
                                      [] wres[w].kind = "BadRequest" -> 400
                                      [] OTHER -> 500

\* A worker found the store lock poisoned and answered 500.
C24_Witness ==
    \E w \in StoreWorkers :
        /\ reply[w].status = 500
        /\ wres[w].kind = "InternalServerError"

\* C25: the store lock is taken before route is entered and held until
\* the handler has returned: a worker is inside route exactly while it
\* holds the lock, so at most one worker is, the store it works on is the
\* store, and no worker holds the lock once its request has a Result, Ok
\* or Err.
C25_LockHeldAroundHandler ==
    /\ \A w \in StoreWorkers : (wpc[w] = "routing") <=> (guard = w)
    /\ Cardinality({w \in StoreWorkers : wpc[w] = "routing"}) <= 1
    /\ \A w \in StoreWorkers : wpc[w] = "routing" => wsnap[w] = store
    /\ \A w \in StoreWorkers : wres[w] # NoResult => guard # w

\* A worker is inside a handler while another, whose request ended in an
\* error, has released the lock.
C25_Witness ==
    \E w, v \in StoreWorkers :
        /\ wpc[w] = "routing"
        /\ wpc[v] = "routed"
        /\ wres[v].kind = "NotFound"

NoDuplicates(q) == Cardinality(Range(q)) = Len(q)

\* C26: requests take effect one at a time in the order they take the
\* lock: a handler's result is the one route gives on the store as all
\* earlier requests left it; no item id is returned by two POSTs, every
\* item returned by a POST and by no DELETE is in the store, and no item
\* is returned by two DELETEs.
C26_Serializable ==
    /\ [](/\ NoDuplicates(issued)
          /\ NoDuplicates(removed)
          /\ Range(Ids(store.rows)) = Range(issued) \ Range(removed)
          /\ Len(store.rows) = Len(issued) - Len(removed))
    /\ [][\A w \in StoreWorkers :
              wpc[w] = "routing" /\ wpc'[w] = "routed" =>
                  LET out == Route(create_http_router, wrq[w], store)
                  IN  wres'[w] = out.res /\ store' = out.db]_vars

\* Two POSTs and two DELETEs of the same item were in progress together:
\* both items were issued, one DELETE got the item and the other NotFound.
C26_Witness ==
    /\ Len(issued) = 2
    /\ Len(removed) = 1
    /\ \E w, v \in StoreWorkers :
           /\ w # v
           /\ wrq[w].method = "DELETE" /\ wrq[v].method = "DELETE"
           /\ wres[w].kind = "Ok" /\ wres[v].kind = "NotFound"

----------------------------------------------------------------------------
(***************************************************************************)
(* HttpClient::send (src/http/client.rs): write the request, then          *)
(* parse_response (src/http/response.rs) on what the server sends back.    *)
(* parse_response is parse_request over again with httparse::Response:    *)
(* the variables of the reader are those of parse_request, request being   *)
(* the Response under construction.                                        *)
(***************************************************************************)

\* req.parse(buf_str.as_bytes()) of an httparse::Response
HttpParseResponse(s) ==
    IF s = <<>> THEN [status |-> "partial", len |-> 0]
    ELSE IF s[1][1] # "sl" THEN [status |-> "error", len |-> 0]
    ELSE LET k == FirstNonHeader(s) IN
         IF k = 0 THEN
             IF Len(s) - 1 > HeaderSlots
               THEN [status |-> "error", len |-> 0]
               ELSE [status |-> "partial", len |-> 0]
         ELSE IF s[k][1] # "end" \/ k - 2 > HeaderSlots
           THEN [status |-> "error", len |-> 0]
         ELSE [status |-> "complete", len |-> k]

\* The Response built when the header region is complete.
ResponseOf(s, k) ==
    [status |-> s[1][2], headers |-> HeadersOf(s, k), body |-> <<>>]

\* What the server puts on the stream before it closes its end: the text
\* of a response, whole or cut short.
ServerReplies ==
    UNION {Prefixes(Serialize(r)) :
               r \in [status : {200, 404}, headers : {<<>>},
                      body : {d \in Data : Utf8Valid(d)}]}

\* HttpClient::new returned: connected, nothing sent.
ClientInit ==
    /\ PoolInit
    /\ StoreIdle
    /\ DbIdle
    /\ RouteIdle
    /\ response = NoResponse
    /\ written = <<>>
    /\ rphase = "idle"
    /\ wire \in ServerReplies
    /\ wpos = 0
    /\ bytes_read = -1
    /\ buf_str = <<>>
    /\ phase = "send"
    /\ parsed_len = 0
    /\ body_len = 0
    /\ request = NoRequest

\* self.stream.write_all(format!(...).as_bytes())
WriteRequest(m, body) ==
    /\ phase = "send"
    /\ written' = ClientWire(m, "/p", body)
    /\ phase' = "header"
    /\ UNCHANGED <<wire, wpos, bytes_read, buf_str, parsed_len, body_len,
                   request, response, rphase>>
    /\ UNCHANGED <<poolVars, routeVars, storeVars, dbVars>>

\* One iteration of the header loop of parse_response with a read of n
\* bytes.
ReadResponseHeader(n) ==
    /\ phase = "header"
    /\ CanRead(n)
    /\ LET acc == buf_str \o from_utf8_lossy(Chunk(n))
           r == HttpParseResponse(acc)
       IN  /\ buf_str' = acc
           /\ CASE r.status = "partial" ->
                     /\ phase' = "header"
                     /\ UNCHANGED <<parsed_len, body_len, request>>
                [] r.status = "error" ->
                     /\ phase' = "parse_error"
                     /\ UNCHANGED <<parsed_len, body_len, request>>
                [] r.status = "complete" ->
                     LET req == ResponseOf(acc, r.len)
                         blen == ContentLength(req.headers)
                     IN  /\ parsed_len' = r.len
                         /\ body_len' = blen
                         /\ BodyLoop(acc, r.len, blen, req)
    /\ wpos' = wpos + n
    /\ bytes_read' = n
    /\ UNCHANGED wire
    /\ UNCHANGED nonParseVars

\* What send returns: the Result of parse_response, as it is.
SendResult(ph) ==
    CASE ph = "done" -> "Ok"
      [] ph = "reset" -> "ConnectionReset"
      [] ph = "parse_error" -> ForeignError
      [] OTHER -> "none"

ClientNext ==
    \/ \E m \in ClientMethods, b \in {<<>>, <<Ascii("a")>>} : WriteRequest(m, b)
    \/ \E n \in 1..ScratchLen : ReadResponseHeader(n)
    \/ \E n \in 1..ScratchLen : ReadBody(n)
    \/ ReadEof

ClientSpec == ClientInit /\ [][ClientNext]_vars

----------------------------------------------------------------------------
\* Properties of the client

\* C27: when the server closes the connection before parse_response has a
\* complete response (a read returns 0 in the header loop or in the body
\* loop), send returns the error NoResponse.
C27_EarlyCloseIsNoResponse ==
    (phase = "reset" /\ bytes_read = 0) => SendResult(phase) = "NoResponse"

\* C28: the bytes send writes for a method, an endpoint and a body that is
\* well-formed UTF-8 are parsed by parse_request, however they are split
\* into reads, into a Request with that method, that path and that body.
C28_ClientRoundTrip ==
    \A m \in ClientMethods, b \in Data :
        (Utf8Valid(b) /\ wire = ClientWire(m, "/p", b) /\ ParseEnded) =>
            /\ phase = "done"
            /\ request.method = m
            /\ request.path = "/p"
            /\ request.body = b

----------------------------------------------------------------------------
(***************************************************************************)
(* One Database value (MockDB of src/database.rs) and the operations       *)
(* called on it directly, as the tests of the module do.                   *)
(***************************************************************************)

\* insert_order: the id is the counter, which is then advanced; one row
insert_order_id_is_len(d, item, table) ==
    LET new == [table |-> table, id |-> Len(d.rows), name |-> item]
    IN  [res |-> Ok(<<new>>),
         db |-> [rows |-> Append(d.rows, new), next |-> d.next + 1]]
insert_order(d, item, table) ==
    LET new == [table |-> table, id |-> d.next, name |-> item]
    IN  [res |-> Ok(<<new>>),
         db |-> [rows |-> Append(d.rows, new), next |-> d.next + 1]]

\* SQLiteConnection (src/database/sqlite.rs): the table orders, whose rows
\* a SELECT returns by ascending id (the INTEGER PRIMARY KEY), and the
\* counter current_id.
sql_select(d, table) == SelectSeq(d.rows, LAMBDA r : r.table = table)

\* insert_order: fetch_add(1), then INSERT
sql_insert_order(d, item, table) ==
    LET new == [table |-> table, id |-> d.next, name |-> item]
    IN  [res |-> Ok(<<new>>),
         db |-> [rows |-> Append(d.rows, new), next |-> d.next + 1]]

\* insert_orders: one fetch_add(1) per item, then the INSERTs in one
\* transaction
sql_insert_orders(d, items, table) ==
    LET new == [i \in 1..Len(items) |->
                   [table |-> table, id |-> d.next + i - 1, name |-> items[i]]]
    IN  [res |-> Ok(new),
         db |-> [rows |-> d.rows \o new, next |-> d.next + Len(items)]]

\* get_order: SELECT_ORDER collected into an Order, whatever the number of
\* rows
sql_get_order(d, table) == [res |-> Ok(sql_select(d, table)), db |-> d]

\* get_order_item: the first row of SELECT_ITEM, NotFound when there is none
sql_get_order_item(d, table, id) ==
    LET hit == SelectSeq(d.rows, LAMBDA r : r.table = table /\ r.id = id)
    IN  [res |-> IF hit = <<>> THEN Err("NotFound", "No order with ID")
                               ELSE Ok(<<hit[1]>>),
         db |-> d]

\* delete_item: get_order_item with `?`, then DELETE_ITEM
sql_delete_item(d, table, id) ==
    LET item == sql_get_order_item(d, table, id).res
    IN  IF item.kind # "Ok" THEN [res |-> item, db |-> d]
        ELSE [res |-> item,
              db |-> [d EXCEPT !.rows =
                        SelectSeq(d.rows,
                                  LAMBDA r : ~(r.table = table /\ r.id = id))]]

\* Largest number of ids the counter hands out.
MaxIds == 3

Tables == {1, 2}
ItemNames == {"a"}
NoOp == [name |-> "none", table |-> 0, id |-> 0]

\* MockDB::new()
DbInit ==
    /\ PoolInit
    /\ StoreIdle
    /\ ParseIdle
    /\ RespondIdle
    /\ RouteIdle
    /\ mock = NewDb
    /\ op = NoOp
    /\ ret = NoResult
    /\ handed = <<>>
    /\ dropped = <<>>
    /\ sqlite = [db |-> NewDb, ret |-> NoResult]

\* An operation returned: the store it left, its result, and the items an
\* insert or a delete returned; the SQLiteConnection was given the same call.
Returned(out, sql, o) ==
    /\ mock' = out.db
    /\ sqlite' = [db |-> sql.db, ret |-> sql.res]
    /\ ret' = out.res
    /\ op' = o
    /\ handed' = IF o.name \in {"insert_order", "insert_orders"}
                       /\ out.res.kind = "Ok"
                   THEN handed \o out.res.items ELSE handed
    /\ dropped' = IF o.name = "delete_item" /\ out.res.kind = "Ok"
                    THEN dropped \o out.res.items ELSE dropped

InsertOrder(item, table) ==
    /\ mock.next + 1 <= MaxIds
    /\ Returned(insert_order(mock, item, table),
                sql_insert_order(sqlite.db, item, table),
                [name |-> "insert_order", table |-> table, id |-> 0])
    /\ UNCHANGED nonDbVars

InsertOrders(items, table) ==
    /\ mock.next + Len(items) <= MaxIds
    /\ Returned(insert_orders(mock, items, table),
                sql_insert_orders(sqlite.db, items, table),
                [name |-> "insert_orders", table |-> table, id |-> 0])
    /\ UNCHANGED nonDbVars

DeleteItem(table, id) ==
    /\ Returned(delete_item(mock, table, id),
                sql_delete_item(sqlite.db, table, id),
                [name |-> "delete_item", table |-> table, id |-> id])
    /\ UNCHANGED nonDbVars

GetOrder(table) ==
    /\ Returned(get_order(mock, table),
                sql_get_order(sqlite.db, table),
                [name |-> "get_order", table |-> table, id |-> 0])
    /\ UNCHANGED nonDbVars

GetOrderItem(table, id) ==
    /\ Returned(get_order_item(mock, table, id),
                sql_get_order_item(sqlite.db, table, id),
                [name |-> "get_order_item", table |-> table, id |-> id])
    /\ UNCHANGED nonDbVars

DbNext ==
    \/ \E item \in ItemNames, t \in Tables : InsertOrder(item, t)
    \/ \E items \in {<<>>, <<"b", "a">>}, t \in Tables :
           InsertOrders(items, t)
    \/ \E t \in Tables, id \in 0..MaxIds : DeleteItem(t, id)
    \/ \E t \in Tables : GetOrder(t)
    \/ \E t \in Tables, id \in 0..MaxIds : GetOrderItem(t, id)

DbSpec == DbInit /\ [][DbNext]_vars

----------------------------------------------------------------------------
\* Properties of the store

\* C30: after any sequence of insert_order, insert_orders and delete_item
\* the stored items have pairwise distinct ids, the ids handed out by the
\* inserts are strictly increasing in the order they were handed out, and
\* the id of a deleted item is never given to a later item.
C30_IdsAreUnique ==
    /\ NoDuplicates(Ids(mock.rows))
    /\ \A i, j \in 1..Len(handed) : i < j => handed[i].id < handed[j].id
    /\ \A i \in 1..Len(handed) : handed[i].id < mock.next
    /\ Range(Ids(dropped)) \subseteq Range(Ids(handed))
    /\ Range(Ids(mock.rows)) = Range(Ids(handed)) \ Range(Ids(dropped))

\* An item was inserted after another had been deleted, next to an item
\* that is still stored.
C30_Witness ==
    /\ op.name \in {"insert_order", "insert_orders"}
    /\ ret.items # <<>>
    /\ dropped # <<>>
    /\ Len(mock.rows) >= 2

\* The rows of a store without the one at index i.
Without(rows, i) == SubSeq(rows, 1, i - 1) \o SubSeq(rows, i + 1, Len(rows))

\* C31: delete_item(table, id) on an item stored under that table returns
\* that item and removes exactly it; from then on delete_item and
\* get_order_item for that id return NotFound.
C31_DeleteOnce ==
    [][op'.name \in {"delete_item", "get_order_item"} =>
          LET i == Position(mock, op'.table, op'.id) IN
          /\ (op'.name = "delete_item" /\ i # 0) =>
                 /\ ret' = Ok(<<mock.rows[i]>>)
                 /\ mock.rows[i].id = op'.id
                 /\ mock.rows[i].table = op'.table
                 /\ mock'.rows = Without(mock.rows, i)
          /\ op'.id \in Range(Ids(dropped)) => ret'.kind = "NotFound"]_vars

\* An item was deleted, and a second delete_item for it returned NotFound
\* while other items are stored.
C31_Witness ==
    /\ op.name = "delete_item"
    /\ op.id \in Range(Ids(dropped))
    /\ ret.kind = "NotFound"
    /\ mock.rows # <<>>

\* The items inserted for a table and not deleted since, in the order of
\* their insertion.
Inserted(table) ==
    SelectSeq(handed, LAMBDA r : r.table = table /\ r \notin Range(dropped))

\* C32: get_order(table) returns exactly the items inserted for that table
\* and not deleted since, in insertion order and as they were returned by
\* the insert; when there is none it returns NotFound.
C32_GetOrderIsInserted ==
    op.name = "get_order" =>
        IF Inserted(op.table) = <<>>
          THEN ret.kind = "NotFound"
          ELSE ret = Ok(Inserted(op.table))

\* get_order returned NotFound for a table all of whose items had been
\* deleted, while the other table has items.
C32_Witness ==
    /\ op.name = "get_order"
    /\ ret.kind = "NotFound"
    /\ \E r \in Range(dropped) : r.table = op.table
    /\ mock.rows # <<>>

\* C33: given the same sequence of calls, MockDB and SQLiteConnection
\* return the same outcome, Ok or NotFound, and the same items at every
\* step.
C33_SameOutcome ==
    /\ sqlite.ret.kind = ret.kind
    /\ sqlite.ret.items = ret.items

\* C37: delete_item(table, id) for an id stored under another table, or
\* under none, returns NotFound, in MockDB and in SQLiteConnection; a
\* delete_item, get_order or get_order_item that returns NotFound leaves the
\* rows and the id counter of the store as they were.
C37_FailedCallChangesNothing ==
    [][op'.name \in {"delete_item", "get_order", "get_order_item"} =>
          /\ (/\ op'.name = "delete_item"
              /\ ~\E r \in Range(mock.rows) :
                     r.table = op'.table /\ r.id = op'.id) =>
                 /\ ret'.kind = "NotFound"
                 /\ sqlite'.ret.kind = "NotFound"
          /\ ret'.kind = "NotFound" => mock' = mock
          /\ sqlite'.ret.kind = "NotFound" => sqlite'.db = sqlite.db]_vars

\* delete_item returned NotFound for the id of an item that is stored under
\* the other table, and the item is still there.
C37_Witness ==
    /\ op.name = "delete_item"
    /\ ret.kind = "NotFound"
    /\ \E r \in Range(mock.rows) : r.id = op.id /\ r.table # op.table

----------------------------------------------------------------------------
\* Further properties of the handler closure

\* C38: once a handler has panicked with the store lock held the lock is
\* poisoned for good: the store is never modified again, no request that
\* comes to the lock from then on enters the router or a handler, each gets
\* the Result InternalServerError, and that Result is answered with 500.
C38_PoisonedForGood ==
    /\ [](/\ store_poisoned =>
                 \A w \in StoreWorkers : wpc[w] # "routing" /\ guard # w
          /\ \A w \in StoreWorkers :
                 (wpc[w] = "idle" /\ wres[w].kind = "InternalServerError") =>
                     reply[w] = internal_server_error)
    /\ [][store_poisoned =>
              /\ store_poisoned'
              /\ store' = store
              /\ \A w \in StoreWorkers :
                     (wpc[w] = "accepted" /\ wpc'[w] # "accepted") =>
                         /\ wpc'[w] = "routed"
                         /\ wres'[w].kind = "InternalServerError"]_vars

\* A handler panicked in one worker after an order had been stored, and
\* another worker has answered a later request with 500.
C38_Witness ==
    /\ store_poisoned
    /\ store.rows # <<>>
    /\ \E w, v \in StoreWorkers :
           /\ wpc[v] = "panicked"
           /\ wpc[w] = "idle"
           /\ wres[w].kind = "InternalServerError"
           /\ reply[w].status = 500

----------------------------------------------------------------------------
\* serve with peers that give up

\* The peer of a connection that has not sent a complete request closes
\* it: the pending read returns 0 and parse_request returns
\* Err(ConnectionReset), as for a connection closed from the start.
PeerCloses(j) ==
    /\ j <= njobs
    /\ kind[j] = "hang"
    /\ kind' = [kind EXCEPT ![j] = "reset"]
    /\ trace' = [trace EXCEPT ![j] = Append(@, "peer_close")]
    /\ UNCHANGED resp
    /\ UNCHANGED nonPoolVars
    /\ UNCHANGED <<poolpc, size, workers, sender, queue, holder, poisoned,
                   pc, cur, njobs, dequeued, completed, joinIdx>>

ServeNext ==
    \/ Next
    \/ \E j \in Jobs : PeerCloses(j)

ServeSpec == Init /\ [][ServeNext]_vars

----------------------------------------------------------------------------
\* Further properties of the worker pool

\* C39: a worker inside a job does not hold the receive mutex, so a job
\* that panics never poisons it; with a worker terminated by a panic, a
\* live worker at the top of its loop takes the mutex as soon as no worker
\* is inside the receive, the worker inside the receive gets the oldest
\* queued job, and a worker that was handed a job runs it.
C39_ReceiveMutexNeverPoisoned ==
    /\ ~poisoned
    /\ \A w \in Workers : pc[w] \in RunPcs => holder # w
    /\ (\E v \in Workers : pc[v] = "panicked") =>
           \A w \in 1..workers :
               /\ (pc[w] = "lock" /\ \A u \in Workers : pc[u] # "recv")
                      => ENABLED Lock(w)
               /\ (pc[w] = "recv" /\ queue # <<>>) => ENABLED Recv(w)
               /\ (pc[w] = "parse" /\ kind[cur[w]] # "hang")
                      => ENABLED Parse(w)
               /\ pc[w] = "handler" => ENABLED Handler(w)

\* A worker received a job that panicked and is terminated; the other
\* worker received a job after that one, has run it to its end and holds
\* the mutex again, inside the receive.
C39_Witness ==
    /\ ~poisoned
    /\ \E i, k \in 1..Len(dequeued) :
           /\ i < k
           /\ kind[dequeued[i][1]] = "panic"
           /\ pc[dequeued[i][2]] = "panicked"
           /\ dequeued[k][2] # dequeued[i][2]
           /\ Count(completed, dequeued[k][1]) = 1
           /\ pc[dequeued[k][2]] = "recv"
           /\ holder = dequeued[k][2]

\* Every worker of the pool is inside the read of a connection whose peer
\* has not sent a complete request.
AllWorkersHang ==
    /\ poolpc = "live"
    /\ \A w \in 1..workers : pc[w] = "parse" /\ kind[cur[w]] = "hang"

\* C40: while each of the N workers is inside the read of a connection
\* that has not sent a complete request, no worker can take a step, every
\* connection accepted since is in the queue, and execute still takes a
\* new connection; a worker whose connection was closed by the peer leaves
\* the read, finishes the connection, takes the mutex and is handed the
\* oldest queued connection.
C40_HangingReadsOccupyWorkers ==
    /\ AllWorkersHang =>
           /\ \A w \in Workers : ~ENABLED WorkerStep(w)
           /\ \A j \in 1..njobs : Dequeues(j) = 0 => Count(queue, j) = 1
           /\ njobs < MaxJobs => ENABLED Execute("hang")
    /\ \A w \in 1..workers :
           /\ (pc[w] = "parse" /\ "peer_close" \in Range(trace[cur[w]]))
                  => ENABLED Parse(w)
           /\ pc[w] = "respond" => ENABLED Respond(w)
           /\ pc[w] = "close" => ENABLED Close(w)
           /\ (pc[w] = "lock" /\ holder = 0) => ENABLED Lock(w)
           /\ (pc[w] = "recv" /\ queue # <<>>) => ENABLED Recv(w)
    /\ \A i \in 1..Len(dequeued) : \A j \in Range(queue) :
           dequeued[i][1] < j

\* The only worker of a pool was inside the read of a connection while
\* another connection was queued; the peer closed the first, and the worker
\* answered it and was handed the second.
C40_Witness ==
    /\ workers = 1
    /\ Len(dequeued) = 2
    /\ "peer_close" \in Range(trace[dequeued[1][1]])
    /\ "write" \in Range(trace[dequeued[1][1]])
    /\ pc[1] = "parse"
    /\ cur[1] = dequeued[2][1]

----------------------------------------------------------------------------
\* Further properties of parse_request

\* C34: every read of a well-formed message is appended to the
\* accumulator: after each read the accumulator is as long as the bytes
\* read so far, and the body loop is left as soon as header-len +
\* content-length bytes were read.
C34_AccumulatorGrowsByRead ==
    WellFormed(wire) =>
        /\ Len(buf_str) = wpos
        /\ phase = "body" => wpos < parsed_len + body_len

\* The positions on the wire of the headers named exactly Content-Length,
\* within a header region of k units.
Declarations(w, k) ==
    {i \in 2..(k - 1) : w[i][1] = "hd" /\ w[i][2] = "Content-Length"}

\* C35: the declared body length is the value of the first header named
\* exactly Content-Length, and 0 when there is none or when its value is
\* no unsigned integer; with a length of 0 parse_request returns as soon
\* as the header region is complete, with an empty body, whatever follows.
C35_FirstContentLength ==
    parsed_len > 0 =>
        LET ds == Declarations(wire, parsed_len) IN
        /\ ds = {} => body_len = 0
        /\ ds # {} =>
               LET v == wire[CHOOSE i \in ds : \A k \in ds : i <= k][3]
               IN  IF \E n \in 0..9 : v = ToString(n)
                     THEN ToString(body_len) = v
                     ELSE body_len = 0
        /\ body_len = 0 => phase = "done" /\ request.body = <<>>

\* A request whose only length header is spelt content-length, followed by
\* more bytes, was returned with an empty body.
C35_Witness ==
    /\ phase = "done"
    /\ \E i \in 1..Len(wire) : wire[i] = HeaderLine("content-length", "1")
    /\ Len(wire) > parsed_len
    /\ request.body = <<>>

----------------------------------------------------------------------------
\* Further properties of respond

\* The status respond is to write: that of the Response, 500 when it has
\* none.
Emitted == IF response.status = StatusNone THEN 500 ELSE response.status

====
